---- MODULE Spec2Model ----
(***************************************************************************)
(* Model of the guardian-helper loadout optimizer and transfer executor    *)
(* (package bungie, Destiny 2 generation of the code).                     *)
(*                                                                         *)
(* SpecBucket  : sortGearBucket followed by findBestItemForBucket on one   *)
(*               equipment bucket.                                         *)
(* SpecLoadout : findMaxLightLoadout on a whole profile.                   *)
(* SpecTransfer: transferItem, its move tasks and the join.                *)
(* SpecEquip   : the EquipMaxLightGear handler from the profile fetch to   *)
(*               the equip call.                                           *)
(***************************************************************************)
EXTENDS Integers, Sequences, FiniteSets, TLC

(***************************************************************************)
(* Bounds of the model.                                                    *)
(***************************************************************************)
\* Longest candidate list handed to sortGearBucket in SpecBucket.
MaxLen == 3
\* Largest power (PrimaryStat.Value) of an item in SpecBucket.
MaxPower == 2
\* Number of characters on the account.
NumChars == 2
\* Largest power of a piece of gear in the profiles of SpecLoadout.
MaxGearPower == 4
\* Longest item set handed to transferItem in SpecTransfer.
MaxItems == 3
\* Largest stack (Item.Quantity) in SpecTransfer.
MaxQuantity == 4
\* Largest requested count in SpecTransfer.
MaxCount == 5
\* Largest number of loadout items away from the destination in SpecEquip.
MaxMovers == 2
\* Longest item set handed to transferItem while the platform is unreliable.
MaxFaultItems == 2
\* Largest number of items in the profiles of SpecIntents.
MaxProfileItems == 2

(***************************************************************************)
(* Program constants.                                                      *)
(***************************************************************************)
BasicTier == 2
SuperiorTier == 5
ExoticTier == 6
CanTransfer == 0
ItemIsEquipped == 1
TitanEnum == 0
HunterEnum == 1
WarlockEnum == 2
UnknownClassEnum == 3

Kinetic == 1
Energy == 2
Power == 3
Ghost == 4
Helmet == 5
Gauntlets == 6
Chest == 7
Legs == 8
ClassArmor == 9

\* A nil *Character: the item is in the vault, or the destination is the vault.
NoCharacter == 0
CharacterIDs == 1..NumChars

\* bucketHashLookup: one distinct bucket type hash per equipment bucket (the
\* real hashes are 32-bit numbers; only their being distinct matters).
bucketHashLookup(bucket) == 1000 + bucket

(***************************************************************************)
(* Items.  A *Item is a record; the embedded *Character is represented by  *)
(* its CharacterID (NoCharacter when the pointer is nil) and the embedded  *)
(* *ItemInstance by the fields IsEquipped and PrimaryStat.                 *)
(* PrimaryStat = -1 stands for an instance without a primary stat.         *)
(***************************************************************************)
nil == [ItemHash |-> 0, InstanceID |-> 0, Quantity |-> 0, TransferStatus |-> 0,
        IsEquipped |-> FALSE, PrimaryStat |-> -1, CharacterID |-> NoCharacter]

\* The manifest table itemMetadata.  An item hash encodes its row:
\* hash = 100 * bucket + 10 * tier + class.  Hashes outside ManifestHashes
\* have no metadata.
ManifestHashes ==
  { 100 * b + 10 * t + UnknownClassEnum : b \in {Kinetic, Energy, Power, Ghost}, t \in {SuperiorTier, ExoticTier} }
  \cup { 100 * b + 10 * t + c : b \in {Helmet, Gauntlets, Chest, Legs, ClassArmor},
                                 t \in {SuperiorTier, ExoticTier}, c \in {TitanEnum, HunterEnum} }
  \cup { 10 * BasicTier + UnknownClassEnum }

itemMetadata(hash) ==
  [TierType |-> (hash \div 10) % 10, ClassType |-> hash % 10,
   BucketHash |-> bucketHashLookup(hash \div 100)]

HashOf(bucket, tier, class) == 100 * bucket + 10 * tier + class

\* item.BucketHash, the bucket the item currently sits in: its equipment
\* bucket while it is on a character, a bucket that is no equipment bucket
\* while it is in the vault.
ItemBucketHash(i) ==
  IF i.CharacterID = NoCharacter THEN bucketHashLookup(0)
  ELSE itemMetadata(i.ItemHash).BucketHash

\* Item.Power
ItemPower(i) == IF i = nil \/ i.PrimaryStat < 0 THEN 0 ELSE i.PrimaryStat

\* Item.IsInVault
IsInVault(i) == i.CharacterID = NoCharacter

\* The filters of the filter engine, as predicates on (item, argument).
itemHashFilter(item, itemHash) == item # nil /\ item.ItemHash = itemHash

itemBucketHashFilter(item, bucketTypeHash) ==
  item.ItemHash \in ManifestHashes /\ itemMetadata(item.ItemHash).BucketHash = bucketTypeHash

itemCharacterIDFilter(item, characterID) ==
  item.CharacterID # NoCharacter /\ item.CharacterID = characterID

itemTierTypeFilter(item, tierType) ==
  item.ItemHash \in ManifestHashes /\ itemMetadata(item.ItemHash).TierType = tierType

itemNotTierTypeFilter(item, tierType) ==
  item.ItemHash \in ManifestHashes /\ itemMetadata(item.ItemHash).TierType # tierType

itemInstanceIDFilter(item, instanceID) == item.InstanceID = instanceID

\* The engramHashes table holds one hash.
EngramHash == 7 + 0
engramHashes == {EngramHash}

itemIsEngramFilter(item, wantEngram) == (item.ItemHash \in engramHashes) = wantEngram

itemClassTypeFilter(item, classType) ==
  item.ItemHash \in ManifestHashes
  /\ (itemMetadata(item.ItemHash).ClassType = UnknownClassEnum
      \/ itemMetadata(item.ItemHash).ClassType = classType)

\* itemHashesFilter: the range loop returns from its first iteration, and
\* `return false` is reached when the loop body never runs.
itemHashesFilter(item, hashList) ==
  IF hashList # <<>> THEN itemHashFilter(item, hashList[1]) ELSE FALSE

\* An ItemFilter value (a function pointer) is represented by the filter's
\* name; callFilter is the call filter(item, arg).
callFilter(filter, item, arg) ==
  CASE filter = "itemHashFilter" -> itemHashFilter(item, arg)
    [] filter = "itemHashesFilter" -> itemHashesFilter(item, arg)
    [] filter = "itemBucketHashFilter" -> itemBucketHashFilter(item, arg)
    [] filter = "itemCharacterIDFilter" -> itemCharacterIDFilter(item, arg)
    [] filter = "itemTierTypeFilter" -> itemTierTypeFilter(item, arg)
    [] filter = "itemNotTierTypeFilter" -> itemNotTierTypeFilter(item, arg)
    [] filter = "itemInstanceIDFilter" -> itemInstanceIDFilter(item, arg)
    [] filter = "itemClassTypeFilter" -> itemClassTypeFilter(item, arg)
    [] filter = "itemIsEngramFilter" -> itemIsEngramFilter(item, arg)

\* ItemList.FilterItems: a new list holding, in order, the items that pass.
FilterItems(items, filter, arg) ==
  SelectSeq(items, LAMBDA it : callFilter(filter, it, arg))

\* A filter that appends to items[:0]: the result shares the receiver's
\* array, whose front is overwritten by the items that pass.
receiverAfterFilterItems_InPlace(items, filter, arg) ==
  FilterItems(items, filter, arg)
    \o SubSeq(items, Len(FilterItems(items, filter, arg)) + 1, Len(items))

\* The receiver of FilterItems after the call.  The result is appended to a
\* list made by make(ItemList, 0, len(items)), an array of its own, and the
\* loop only reads the receiver.
receiverAfterFilterItems(items, filter, arg) == items

(***************************************************************************)
(* sort.Sort gives no guarantee on the order of equal elements, so a sort  *)
(* is modelled by the set of its possible outcomes.                        *)
(***************************************************************************)
RECURSIVE Orderings(_)
Orderings(S) ==
  IF S = {} THEN { <<>> }
  ELSE UNION { { <<x>> \o rest : rest \in Orderings(S \ {x}) } : x \in S }

\* All arrangements of the elements of a list.
Arrangements(items) ==
  { [k \in 1..Len(items) |-> items[o[k]]] : o \in Orderings(1..Len(items)) }

\* sort.Sort(sort.Reverse(LightSort(result))): highest power first.
SortedByLightDesc(items) ==
  { s \in Arrangements(items) :
      \A k \in 1..(Len(s) - 1) : ItemPower(s[k]) >= ItemPower(s[k + 1]) }

\* sort.Sort(LightSort(result)): lowest power first.
SortedByLightAsc(items) ==
  { s \in Arrangements(items) :
      \A k \in 1..(Len(s) - 1) : ItemPower(s[k]) <= ItemPower(s[k + 1]) }

\* sortGearBucket: the possible results for one bucket hash.
sortGearBucket(bucketHash, inventory) ==
  SortedByLightDesc(FilterItems(inventory, "itemBucketHashFilter", bucketHash))

\* The inventory handed to sortGearBucket after the call: sort.Sort is
\* applied to the result of FilterItems, not to the inventory.
inventoryAfterSortGearBucket(bucketHash, inventory) ==
  receiverAfterFilterItems(inventory, "itemBucketHashFilter", bucketHash)

(***************************************************************************)
(* findBestItemForBucket                                                   *)
(***************************************************************************)
\* The chain without its second branch: an equipped item of the destination
\* is not preferred to one merely present there.
nextCandidate_NoEquippedPreference(candidate, next, destinationID) ==
  IF (~IsInVault(next) /\ next.CharacterID = destinationID)
     /\ (~IsInVault(candidate) /\ candidate.CharacterID # destinationID)
  THEN next
  ELSE IF (~IsInVault(candidate) /\ candidate.CharacterID # destinationID)
          /\ IsInVault(next)
  THEN next
  ELSE candidate

\* The chain without its third branch: a vault item is not preferred to one
\* on another character.
nextCandidate_NoVaultPreference(candidate, next, destinationID) ==
  IF (~IsInVault(next) /\ next.CharacterID = destinationID)
     /\ (~IsInVault(candidate) /\ candidate.CharacterID # destinationID)
  THEN next
  ELSE IF (~IsInVault(next) /\ next.CharacterID = destinationID)
          /\ (~IsInVault(candidate) /\ candidate.CharacterID = destinationID)
  THEN (IF next.TransferStatus = ItemIsEquipped /\ candidate.TransferStatus # ItemIsEquipped
        THEN next ELSE candidate)
  ELSE candidate

\* One pass of the loop body's if / else-if chain that may replace the candidate.
nextCandidate(candidate, next, destinationID) ==
  IF (~IsInVault(next) /\ next.CharacterID = destinationID)
     /\ (~IsInVault(candidate) /\ candidate.CharacterID # destinationID)
  THEN next
  ELSE IF (~IsInVault(next) /\ next.CharacterID = destinationID)
          /\ (~IsInVault(candidate) /\ candidate.CharacterID = destinationID)
  THEN (IF next.TransferStatus = ItemIsEquipped /\ candidate.TransferStatus # ItemIsEquipped
        THEN next ELSE candidate)
  ELSE IF (~IsInVault(candidate) /\ candidate.CharacterID # destinationID)
          /\ IsInVault(next)
  THEN next
  ELSE candidate

\* A loop that never stops early and lets a later equipped item win: the
\* short-circuit and the candidate test of the second branch are missing.
RECURSIVE findBestLoop_LatestEquippedWins(_, _, _, _)
findBestLoop_LatestEquippedWins(items, destinationID, candidate, i) ==
  IF i > Len(items) THEN candidate
  ELSE IF ItemPower(items[i]) < ItemPower(candidate) THEN candidate
  ELSE findBestLoop_LatestEquippedWins(items, destinationID,
         IF items[i].CharacterID = destinationID /\ items[i].TransferStatus = ItemIsEquipped
         THEN items[i] ELSE nextCandidate(candidate, items[i], destinationID),
         i + 1)

\* A loop without the `next.Power() < candidate.Power()` break.
RECURSIVE findBestLoop_NoPowerBreak(_, _, _, _)
findBestLoop_NoPowerBreak(items, destinationID, candidate, i) ==
  IF i > Len(items) THEN candidate
  ELSE IF candidate.IsEquipped /\ candidate.CharacterID = destinationID THEN candidate
  ELSE findBestLoop_NoPowerBreak(items, destinationID,
         nextCandidate(candidate, items[i], destinationID), i + 1)

\* The for loop of findBestItemForBucket from index i (1-based) on.
RECURSIVE findBestLoop(_, _, _, _)
findBestLoop(items, destinationID, candidate, i) ==
  IF i > Len(items) THEN candidate
  ELSE IF ItemPower(items[i]) < ItemPower(candidate) THEN candidate
  ELSE IF candidate.IsEquipped /\ candidate.CharacterID = destinationID THEN candidate
  ELSE findBestLoop(items, destinationID,
         nextCandidate(candidate, items[i], destinationID), i + 1)

findBestItemForBucket(items, destinationID) ==
  IF Len(items) <= 0 THEN nil
  ELSE findBestLoop(items, destinationID, items[1], 2)

(***************************************************************************)
(* groupAndSortGear and findMaxLightLoadout.  A Loadout and the maps       *)
(* returned by groupAndSortGear are indexed by the equipment bucket,       *)
(* Kinetic..ClassArmor.                                                    *)
(***************************************************************************)
LoadoutBuckets == Kinetic..ClassArmor
WeaponBuckets == <<Kinetic, Energy, Power>>
ArmorBuckets == <<Helmet, Gauntlets, Chest, Legs>>
ClassArmorBuckets == <<ClassArmor>>
SeqRange(q) == { q[k] : k \in 1..Len(q) }

\* CharacterList.findCharacterFromID
findCharacterFromID(charList, characterID) ==
  LET hits == SelectSeq(charList, LAMBDA ch : ch.CharacterID = characterID)
  IN IF Len(hits) = 0 THEN [CharacterID |-> NoCharacter, ClassType |-> UnknownClassEnum]
     ELSE hits[1]

\* The possible results of groupAndSortGear for the buckets 1..n.
RECURSIVE groupChoices(_, _)
groupChoices(n, inv) ==
  IF n = 0 THEN { <<>> }
  ELSE { Append(g, s) : g \in groupChoices(n - 1, inv),
                        s \in sortGearBucket(bucketHashLookup(n), inv) }

groupAndSortGear(inv) == groupChoices(ClassArmor, inv)

\* The baseline: the best non-exotic item of every bucket.
baselineLoadout(gearSortedByLight, destID) ==
  [i \in LoadoutBuckets |-> findBestItemForBucket(gearSortedByLight[i], destID)]

\* exoticCandidate of every bucket the three override loops look at.
exoticCandidatesOf(exoticsSortedAndGrouped, destID) ==
  [i \in LoadoutBuckets |->
     IF i \in SeqRange(ClassArmorBuckets) \cup SeqRange(WeaponBuckets) \cup SeqRange(ArmorBuckets)
     THEN findBestItemForBucket(exoticsSortedAndGrouped[i], destID)
     ELSE nil]

\* exoticCandidate != nil && exoticCandidate.Power() > loadout[bucket].Power()
exoticQualifies(cand, ld, bucket) ==
  cand # nil /\ ItemPower(cand) > ItemPower(ld[bucket])

\* The loop over {ClassArmor}: every qualifying candidate overrides its slot.
overrideEach(buckets, cands, ld) ==
  [i \in LoadoutBuckets |->
     IF i \in SeqRange(buckets) /\ exoticQualifies(cands[i], ld, i) THEN cands[i] ELSE ld[i]]

\* A selection that keeps the first qualifying candidate: the comparison with
\* the candidate kept so far is missing.
RECURSIVE pickExotic_FirstQualifying(_, _, _, _, _)
pickExotic_FirstQualifying(buckets, k, cands, ld, cur) ==
  IF k > Len(buckets) THEN cur
  ELSE pickExotic_FirstQualifying(buckets, k + 1, cands, ld,
         IF exoticQualifies(cands[buckets[k]], ld, buckets[k]) /\ cur.item = nil
         THEN [item |-> cands[buckets[k]], bucket |-> buckets[k]]
         ELSE cur)

\* The weapon and armor loops: the qualifying candidate kept is replaced only
\* by one of strictly higher power.
RECURSIVE pickExotic(_, _, _, _, _)
pickExotic(buckets, k, cands, ld, cur) ==
  IF k > Len(buckets) THEN cur
  ELSE pickExotic(buckets, k + 1, cands, ld,
         IF exoticQualifies(cands[buckets[k]], ld, buckets[k])
            /\ (cur.item = nil \/ ItemPower(cands[buckets[k]]) > ItemPower(cur.item))
         THEN [item |-> cands[buckets[k]], bucket |-> buckets[k]]
         ELSE cur)

\* An override step that applies every qualifying candidate of the category.
overrideOne_Every(buckets, cands, ld) == overrideEach(buckets, cands, ld)

\* if weaponExoticCandidate != nil { loadout[weaponBucket] = weaponExoticCandidate }
overrideOne(buckets, cands, ld) ==
  LET p == pickExotic(buckets, 1, cands, ld, [item |-> nil, bucket |-> 0])
  IN IF p.item # nil THEN [ld EXCEPT ![p.bucket] = p.item] ELSE ld

\* The override part of findMaxLightLoadout, lines 344-383.
overrideExotics(base, cands) ==
  overrideOne(ArmorBuckets, cands,
    overrideOne(WeaponBuckets, cands,
      overrideEach(ClassArmorBuckets, cands, base)))

(***************************************************************************)
(* transferItem.  A move task is the goroutine dispatched for one item:    *)
(* pc is "start", "vaulted" (the to-vault call has returned) or "done",    *)
(* calls the request bodies it has posted so far.                          *)
(***************************************************************************)
MoveCall(item, stackSize, transferToVault, characterId) ==
  [itemReferenceHash |-> item.ItemHash, stackSize |-> stackSize,
   transferToVault |-> transferToVault, itemId |-> item.InstanceID,
   characterId |-> characterId]

\* results holds what PostTransferItem met for each call of the task.
NewTask(item, numToTransfer) ==
  [item |-> item, numToTransfer |-> numToTransfer, pc |-> "start", calls |-> <<>>,
   results |-> <<>>]

\* Client.PostTransferItem.  responses are the platform's answers to the
\* successive attempts: "ok", "failed" (an error code other than the
\* throttle), "throttled", or "error" (c.Do returned an error).  The result
\* is the number of attempts counted and the answer the loop ended on;
\* nothing is returned to the caller.
MaxAttempts == 5

RECURSIVE PostAttempts(_, _)
PostAttempts(responses, attempts) ==
  IF responses[attempts + 1] = "error"
  THEN [attempts |-> attempts, result |-> "error"]
  ELSE IF responses[attempts + 1] # "throttled" \/ attempts + 1 >= MaxAttempts
  THEN [attempts |-> attempts + 1, result |-> responses[attempts + 1]]
  ELSE PostAttempts(responses, attempts + 1)

PostTransferItem(responses) == PostAttempts(responses, 0)

\* The answers of the platform to the attempts of one call: k throttle
\* answers and then the same final answer.
PlatformResponses(pf) ==
  IF pf = "reliable" THEN { [i \in 1..MaxAttempts |-> "ok"] }
  ELSE { [i \in 1..MaxAttempts |-> IF i <= k THEN "throttled" ELSE r] :
           k \in 0..MaxAttempts, r \in {"ok", "failed", "error"} }

\* A task that adds what it moved to the total when its call is made.
totalCountAfterTaskStep_Accumulate(total, task) == total + task.numToTransfer

\* totalCount after a step of a move task.  The goroutine reads item,
\* numToTransfer, destCharacter and client; totalCount is written by the
\* dispatch loop alone, before the goroutine is started.
totalCountAfterTaskStep(total, task) == total

\* A task that gives up when its to-vault call did not succeed.
afterToVault_AbortOnFailure(dest, result) ==
  IF dest = NoCharacter \/ result # "ok" THEN "done" ELSE "vaulted"

\* if destCharacter == nil { return }: where a task stands after its
\* to-vault call, whatever the call met.
afterToVault(dest, result) == IF dest = NoCharacter THEN "done" ELSE "vaulted"

\* A task that may post its from-vault call without the to-vault call.
atFromVault_Eager(task) == task.pc \in {"start", "vaulted"}

\* The task is at its from-vault call: the to-vault call has returned, or
\* the item was in the vault and there was none to make.
atFromVault(task) ==
  \/ task.pc = "vaulted"
  \/ task.pc = "start" /\ task.item.CharacterID = NoCharacter

\* A return that does not wait for the tasks.
allDone_NoWait(ts) == TRUE

\* wg.Wait(): every dispatched task has run its deferred wg.Done().
allDone(ts) == \A t \in 1..Len(ts) : ts[t].pc = "done"

\* numToTransfer of one iteration.
numToTransferOf(item, cnt, total) ==
  IF cnt # -1 /\ item.Quantity > cnt - total THEN cnt - total ELSE item.Quantity

\* A dispatch loop that has lost its `totalCount >= count` break.
RECURSIVE transferLoop_NoBreak(_, _, _, _, _, _)
transferLoop_NoBreak(items, dest, cnt, k, total, ts) ==
  IF k > Len(items) THEN [totalCount |-> total, tasks |-> ts, panic |-> FALSE]
  ELSE IF items[k] = nil THEN [totalCount |-> total, tasks |-> ts, panic |-> TRUE]
  ELSE IF items[k].CharacterID = dest
  THEN transferLoop_NoBreak(items, dest, cnt, k + 1, total, ts)
  ELSE transferLoop_NoBreak(items, dest, cnt, k + 1,
         total + numToTransferOf(items[k], cnt, total),
         Append(ts, NewTask(items[k], numToTransferOf(items[k], cnt, total))))

\* A dispatch loop that has lost its `item.Character == destCharacter` skip.
RECURSIVE transferLoop_NoSkip(_, _, _, _, _, _)
transferLoop_NoSkip(items, dest, cnt, k, total, ts) ==
  IF k > Len(items) THEN [totalCount |-> total, tasks |-> ts, panic |-> FALSE]
  ELSE IF items[k] = nil THEN [totalCount |-> total, tasks |-> ts, panic |-> TRUE]
  ELSE IF cnt # -1 /\ total + numToTransferOf(items[k], cnt, total) >= cnt
  THEN [totalCount |-> total + numToTransferOf(items[k], cnt, total),
        tasks |-> Append(ts, NewTask(items[k], numToTransferOf(items[k], cnt, total))),
        panic |-> FALSE]
  ELSE transferLoop_NoSkip(items, dest, cnt, k + 1,
         total + numToTransferOf(items[k], cnt, total),
         Append(ts, NewTask(items[k], numToTransferOf(items[k], cnt, total))))

\* The for loop of transferItem from item k on: the running total and the
\* tasks dispatched.  Reading item.Character of a nil item panics; the tasks
\* dispatched before it keep running.
RECURSIVE transferLoop(_, _, _, _, _, _)
transferLoop(items, dest, cnt, k, total, ts) ==
  IF k > Len(items) THEN [totalCount |-> total, tasks |-> ts, panic |-> FALSE]
  ELSE IF items[k] = nil THEN [totalCount |-> total, tasks |-> ts, panic |-> TRUE]
  ELSE IF items[k].CharacterID = dest
  THEN transferLoop(items, dest, cnt, k + 1, total, ts)
  ELSE IF cnt # -1 /\ total + numToTransferOf(items[k], cnt, total) >= cnt
  THEN [totalCount |-> total + numToTransferOf(items[k], cnt, total),
        tasks |-> Append(ts, NewTask(items[k], numToTransferOf(items[k], cnt, total))),
        panic |-> FALSE]
  ELSE transferLoop(items, dest, cnt, k + 1,
         total + numToTransferOf(items[k], cnt, total),
         Append(ts, NewTask(items[k], numToTransferOf(items[k], cnt, total))))

(***************************************************************************)
(* State.                                                                  *)
(***************************************************************************)
VARIABLES
  destinationID,     \* the destination character of the operation
  bpc,               \* SpecBucket: "input", "sorted" or "done"
  inventory,         \* SpecBucket: the item list handed to sortGearBucket
  sorted,            \* SpecBucket: the result of sortGearBucket
  best,              \* SpecBucket: the result of findBestItemForBucket
  lpc,               \* SpecLoadout: "input" or "done"
  profile,           \* the Profile: Characters and AllItems
  baseline,          \* findMaxLightLoadout: loadout before the exotic overrides
  exoticCandidates,  \* findMaxLightLoadout: exoticCandidate of each bucket
  loadout,           \* the Loadout returned by findMaxLightLoadout
  tpc,               \* transferItem: "call", "waiting", "returned" or "panic"
  itemSet,           \* transferItem: itemSet
  destCharacter,     \* transferItem: destCharacter (NoCharacter: the vault)
  count,             \* transferItem: count (-1: all)
  totalCount,        \* transferItem: totalCount
  tasks,             \* transferItem: the move tasks dispatched
  platform,          \* the platform's answers to move calls: "reliable" or "unreliable"
  epc,               \* EquipMaxLightGear: the handler's position
  light,             \* EquipMaxLightGear: calculateLightLevel() * 1000, or NotComputed
  equipCalls,        \* EquipMaxLightGear: the equip requests posted so far
  request,           \* the intent being handled and its slots
  response,          \* what the handler has returned: "none" until it returns
  fetches,           \* the profile fetches made for the request
  ppc,               \* loadout persistence: the position of the save or restore
  savedLoadout,      \* CreateLoadoutForCurrentCharacter: the Loadout handed to toPersistedLoadout
  persistedLoadout,  \* the PersistedLoadout written to or read from the database
  restoredLoadout,   \* the Loadout returned by fromPersistedLoadout
  fpc,               \* fixupProfileFromProfileResponse: "response", "fixed" or "panic"
  profileResponse,   \* the GetProfileResponse handed to fixupProfileFromProfileResponse
  poolSize,          \* ClientPool: len(pool.Clients)
  current,           \* ClientPool: pool.current
  clientTokens,      \* ClientPool: the AccessToken field of each client
  callers,           \* the goroutines that use the pool: position, token, locals
  postpc,            \* PostTransferItem / PostEquipItem: "loop" or "returned"
  postCall,          \* which of the two functions runs, and on which endpoint
  attempts,          \* PostTransferItem / PostEquipItem: attempts
  answers,           \* the answers the HTTP attempts of the call have met
  hpc,               \* itemHashesFilter: "call" or "returned"
  hashItem,          \* itemHashesFilter: item
  hashList,          \* itemHashesFilter: hashList
  hashResult         \* itemHashesFilter: the value returned

bucketVars == <<bpc, inventory, sorted, best>>
loadoutVars == <<lpc, profile, baseline, exoticCandidates, loadout>>
transferVars == <<tpc, itemSet, destCharacter, count, totalCount, tasks>>
equipVars == <<epc, light, equipCalls>>
requestVars == <<request, response, fetches>>
persistVars == <<ppc, savedLoadout, persistedLoadout, restoredLoadout>>
fixupVars == <<fpc, profileResponse>>
poolVars == <<poolSize, current, clientTokens, callers>>
postVars == <<postpc, postCall, attempts, answers>>
hashVars == <<hpc, hashItem, hashList, hashResult>>
vars == <<destinationID, platform, bucketVars, loadoutVars, transferVars, equipVars, requestVars,
          persistVars, fixupVars, poolVars, postVars, hashVars>>

EmptyLoadout == [i \in LoadoutBuckets |-> nil]
EmptyProfile == [Characters |-> <<>>, AllItems |-> <<>>]

BucketIdle == bpc = "off" /\ inventory = <<>> /\ sorted = <<>> /\ best = nil
LoadoutIdle ==
  /\ lpc = "off" /\ profile = EmptyProfile /\ baseline = EmptyLoadout
  /\ exoticCandidates = EmptyLoadout /\ loadout = EmptyLoadout
TransferIdle ==
  /\ tpc = "off" /\ itemSet = <<>> /\ destCharacter = NoCharacter /\ count = -1
  /\ totalCount = 0 /\ tasks = <<>>
NotComputed == -1
EquipIdle == epc = "off" /\ light = NotComputed /\ equipCalls = <<>>

\* A slot of the request: empty, a text that is no number, or a number.
EmptySlot == [kind |-> "empty", value |-> 0]
TextSlot == [kind |-> "text", value |-> 0]
NumberSlot(n) == [kind |-> "number", value |-> n]
IntentRequest(intent, countSlot, item, destination) ==
  [intent |-> intent, count |-> countSlot, item |-> item, destination |-> destination]
NoRequest == IntentRequest("none", EmptySlot, "", "")
RequestIdle == request = NoRequest /\ response = "none" /\ fetches = 0
PersistIdle ==
  ppc = "off" /\ savedLoadout = <<>> /\ persistedLoadout = <<>> /\ restoredLoadout = <<>>
FixupIdle == fpc = "off" /\ profileResponse = <<>>
PoolIdle == poolSize = 1 /\ current = 0 /\ clientTokens = <<0>> /\ callers = <<>>
PostIdle == postpc = "off" /\ postCall = "none" /\ attempts = 0 /\ answers = <<>>
HashesIdle == hpc = "off" /\ hashItem = nil /\ hashList = <<>> /\ hashResult = FALSE

(***************************************************************************)
(* SpecBucket.  The inputs are lists of instanced gear of one bucket       *)
(* (legendary kinetic weapons), each item with its own instance id, any    *)
(* power, any owner; IsEquipped and TransferStatus agree, as in the        *)
(* platform's responses, and only an item on a character can be equipped.  *)
(***************************************************************************)
Locations ==
  { [CharacterID |-> c, IsEquipped |-> e] : c \in CharacterIDs, e \in BOOLEAN }
  \cup { [CharacterID |-> NoCharacter, IsEquipped |-> FALSE] }

MkItem(hash, instanceID, quantity, power, loc) ==
  [ItemHash |-> hash, InstanceID |-> instanceID, Quantity |-> quantity,
   TransferStatus |-> IF loc.IsEquipped THEN ItemIsEquipped ELSE CanTransfer,
   IsEquipped |-> loc.IsEquipped, PrimaryStat |-> power,
   CharacterID |-> loc.CharacterID]

\* The inventories of n items.  The powers are listed in ascending order,
\* so that the sort has to reverse them; the outcomes of the sort do not
\* depend on the order of the inventory.
BucketInventories(n) ==
  { [k \in 1..n |-> MkItem(HashOf(Kinetic, SuperiorTier, UnknownClassEnum), k, 1, p[k], l[k])] :
      p \in { q \in [1..n -> 1..MaxPower] : \A k \in 1..(n - 1) : q[k] <= q[k + 1] },
      l \in [1..n -> Locations] }

BucketInit ==
  /\ PoolIdle
  /\ PostIdle
  /\ bpc = "input"
  /\ platform = "reliable"
  /\ \E n \in 0..MaxLen : inventory \in BucketInventories(n)
  /\ destinationID \in CharacterIDs
  /\ sorted = <<>>
  /\ best = nil
  /\ LoadoutIdle
  /\ TransferIdle
  /\ EquipIdle
  /\ RequestIdle
  /\ PersistIdle
  /\ FixupIdle
  /\ HashesIdle

SortGearBucket ==
  /\ bpc = "input"
  /\ \E s \in sortGearBucket(bucketHashLookup(Kinetic), inventory) : sorted' = s
  /\ inventory' = inventoryAfterSortGearBucket(bucketHashLookup(Kinetic), inventory)
  /\ bpc' = "sorted"
  /\ UNCHANGED <<platform, hashVars, poolVars, postVars, fixupVars, persistVars, requestVars, destinationID, best, loadoutVars, transferVars, equipVars>>

FindBestItemForBucket ==
  /\ bpc = "sorted"
  /\ best' = findBestItemForBucket(sorted, destinationID)
  /\ bpc' = "done"
  /\ UNCHANGED <<platform, hashVars, poolVars, postVars, fixupVars, persistVars, requestVars, inventory, destinationID, sorted, loadoutVars, transferVars, equipVars>>

BucketNext == SortGearBucket \/ FindBestItemForBucket

SpecBucket == BucketInit /\ [][BucketNext]_vars

(***************************************************************************)
(* Properties of findBestItemForBucket.                                    *)
(***************************************************************************)
MaxOf(S) == CHOOSE m \in S : \A x \in S : x <= m
ListPowers(items) == { ItemPower(items[k]) : k \in 1..Len(items) }
OnDestination(i) == ~IsInVault(i) /\ i.CharacterID = destinationID
EquippedOnDestination(i) == OnDestination(i) /\ i.IsEquipped
BucketDone == bpc = "done" /\ Len(sorted) > 0
\* The candidates of maximal power.
TopItems == { sorted[k] : k \in { j \in 1..Len(sorted) : ItemPower(sorted[j]) = MaxOf(ListPowers(sorted)) } }

\* C1: the item returned for a list sorted by descending power is one of the
\* list's items and has the maximal power of the list.
C1_HighestPowerWins ==
  BucketDone =>
    /\ \E k \in 1..Len(sorted) : best = sorted[k]
    /\ ItemPower(best) = MaxOf(ListPowers(sorted))

C1_Witness ==
  /\ BucketDone
  /\ Len(sorted) = 3
  /\ ItemPower(sorted[1]) > ItemPower(sorted[3])
  /\ OnDestination(sorted[3]) /\ sorted[3].IsEquipped
  /\ ~OnDestination(sorted[1])
  /\ best = sorted[1]

\* C2: when some candidate of maximal power is on the destination character,
\* the item returned is on the destination character, in every list order.
C2_DestinationPreferred ==
  (BucketDone /\ \E t \in TopItems : OnDestination(t)) => OnDestination(best)

\* C3: of two equal-power items on the destination character, one equipped
\* and one merely present, the equipped one is returned, in either order.
C3_Case ==
  /\ BucketDone
  /\ Len(sorted) = 2
  /\ ItemPower(sorted[1]) = ItemPower(sorted[2])
  /\ OnDestination(sorted[1]) /\ OnDestination(sorted[2])
  /\ sorted[1].IsEquipped # sorted[2].IsEquipped

C3_EquippedBeatsPresent ==
  C3_Case => (best \in {sorted[1], sorted[2]} /\ best.IsEquipped)

C3_Witness ==
  C3_Case /\ ~sorted[1].IsEquipped /\ sorted[2].IsEquipped /\ best = sorted[2]

\* C4: of two equal-power items neither of which is on the destination, one
\* in the vault and one on another character, the vault item is returned, in
\* either order.
C4_Case ==
  /\ BucketDone
  /\ Len(sorted) = 2
  /\ ItemPower(sorted[1]) = ItemPower(sorted[2])
  /\ ~OnDestination(sorted[1]) /\ ~OnDestination(sorted[2])
  /\ IsInVault(sorted[1]) # IsInVault(sorted[2])

C4_VaultBeatsOtherCharacter ==
  C4_Case => (best \in {sorted[1], sorted[2]} /\ IsInVault(best))

C4_Witness ==
  C4_Case /\ ~IsInVault(sorted[1]) /\ IsInVault(sorted[2]) /\ best = sorted[2]

\* C5: when the first candidate is equipped on the destination character it
\* is the item returned, whatever the later candidates are.
C5_ShortCircuit ==
  (BucketDone /\ EquippedOnDestination(sorted[1])) => best = sorted[1]

C5_Witness ==
  /\ BucketDone
  /\ Len(sorted) = 3
  /\ EquippedOnDestination(sorted[1])
  /\ EquippedOnDestination(sorted[2])
  /\ ItemPower(sorted[2]) = ItemPower(sorted[1])
  /\ IsInVault(sorted[3])
  /\ best = sorted[1]

(***************************************************************************)
(* SpecLoadout.  The profiles are built from gear entries; an entry of     *)
(* power 0 is a piece of gear the account does not own.  Two families:     *)
(* armor-rich profiles, in which helmet, gauntlets and legs have a         *)
(* legendary and possibly an exotic of any power, class armor possibly an  *)
(* exotic, and chest two equal legendaries and an exotic of another class; *)
(* weapon-rich profiles, in which the three weapon buckets have a          *)
(* legendary and possibly an exotic of any power.                          *)
(***************************************************************************)
ClassTypeOf(c) == (c - 1) % 3
Characters == [c \in CharacterIDs |-> [CharacterID |-> c, ClassType |-> ClassTypeOf(c)]]

InVault == [CharacterID |-> NoCharacter, IsEquipped |-> FALSE]
OnCharacter(c) == [CharacterID |-> c, IsEquipped |-> FALSE]
Gear(bucket, tier, class, power, loc) ==
  [Bucket |-> bucket, Tier |-> tier, Class |-> class, Power |-> power, Loc |-> loc]

\* The item list of the owned entries; instance ids number the items.
BuildItems(entries) ==
  LET owned == SelectSeq(entries, LAMBDA e : e.Power # 0)
  IN [k \in 1..Len(owned) |->
        MkItem(HashOf(owned[k].Bucket, owned[k].Tier, owned[k].Class), k, 1,
               owned[k].Power, owned[k].Loc)]

\* A legendary of power pw[1] and an exotic of power pw[2] in one bucket.
Pair(bucket, class, pw) ==
  << Gear(bucket, SuperiorTier, class, pw[1], InVault),
     Gear(bucket, ExoticTier, class, pw[2], InVault) >>

PowerPairs(maxPower) == (1..maxPower) \X (0..maxPower)

ArmorProfiles(maxPower) ==
  { BuildItems(
      << Gear(Kinetic, SuperiorTier, UnknownClassEnum, 1, InVault),
         Gear(Energy, SuperiorTier, UnknownClassEnum, 1, InVault),
         Gear(Power, SuperiorTier, UnknownClassEnum, 1, InVault),
         Gear(Ghost, SuperiorTier, UnknownClassEnum, -1, InVault) >>
      \o Pair(Helmet, TitanEnum, h) \o Pair(Gauntlets, TitanEnum, g)
      \o << Gear(Chest, SuperiorTier, TitanEnum, 1, InVault),
            Gear(Chest, SuperiorTier, TitanEnum, 1, OnCharacter(1)),
            Gear(Chest, ExoticTier, HunterEnum, maxPower, InVault) >>
      \o Pair(Legs, TitanEnum, l)
      \o Pair(ClassArmor, TitanEnum, <<1, ca>>)) :
      h \in PowerPairs(maxPower), g \in PowerPairs(maxPower), l \in PowerPairs(maxPower),
      ca \in {0, maxPower} }

WeaponProfiles(maxPower) ==
  { BuildItems(
      Pair(Kinetic, UnknownClassEnum, k) \o Pair(Energy, UnknownClassEnum, e)
      \o Pair(Power, UnknownClassEnum, w)
      \o << Gear(Ghost, SuperiorTier, UnknownClassEnum, -1, InVault),
            Gear(Helmet, SuperiorTier, TitanEnum, 1, InVault),
            Gear(Gauntlets, SuperiorTier, TitanEnum, 1, InVault),
            Gear(Chest, SuperiorTier, TitanEnum, 1, InVault),
            Gear(Legs, SuperiorTier, TitanEnum, 1, InVault),
            Gear(ClassArmor, SuperiorTier, TitanEnum, 1, InVault) >>) :
      k \in PowerPairs(maxPower), e \in PowerPairs(maxPower), w \in PowerPairs(maxPower) }

LoadoutInit ==
  /\ PoolIdle
  /\ PostIdle
  /\ lpc = "input"
  /\ platform = "reliable"
  /\ \E a \in ArmorProfiles(MaxGearPower) \cup WeaponProfiles(MaxGearPower) :
       profile = [Characters |-> Characters, AllItems |-> a]
  /\ destinationID \in CharacterIDs
  /\ baseline = EmptyLoadout
  /\ exoticCandidates = EmptyLoadout
  /\ loadout = EmptyLoadout
  /\ BucketIdle
  /\ TransferIdle
  /\ EquipIdle
  /\ RequestIdle
  /\ PersistIdle
  /\ FixupIdle
  /\ HashesIdle

\* findMaxLightLoadout(profile, destinationID)
FindMaxLightLoadout ==
  /\ lpc = "input"
  /\ LET destinationClassType ==
           findCharacterFromID(profile.Characters, destinationID).ClassType
         filteredItems ==
           FilterItems(FilterItems(profile.AllItems, "itemClassTypeFilter", destinationClassType),
                       "itemNotTierTypeFilter", ExoticTier)
         exotics ==
           FilterItems(FilterItems(profile.AllItems, "itemTierTypeFilter", ExoticTier),
                       "itemClassTypeFilter", destinationClassType)
     IN \E gearSortedByLight \in groupAndSortGear(filteredItems),
           exoticsSortedAndGrouped \in groupAndSortGear(exotics) :
          /\ baseline' = baselineLoadout(gearSortedByLight, destinationID)
          /\ exoticCandidates' = exoticCandidatesOf(exoticsSortedAndGrouped, destinationID)
          /\ loadout' = overrideExotics(baselineLoadout(gearSortedByLight, destinationID),
                                       exoticCandidatesOf(exoticsSortedAndGrouped, destinationID))
  /\ profile' =
       [profile EXCEPT !.AllItems =
          receiverAfterFilterItems(
            receiverAfterFilterItems(@, "itemClassTypeFilter",
              findCharacterFromID(profile.Characters, destinationID).ClassType),
            "itemTierTypeFilter", ExoticTier)]
  /\ lpc' = "done"
  /\ UNCHANGED <<platform, hashVars, poolVars, postVars, fixupVars, persistVars, requestVars, destinationID, bucketVars, transferVars, equipVars>>

LoadoutNext == FindMaxLightLoadout

SpecLoadout == LoadoutInit /\ [][LoadoutNext]_vars

(***************************************************************************)
(* Properties of findMaxLightLoadout.                                      *)
(***************************************************************************)
IsExotic(item) == item # nil /\ itemTierTypeFilter(item, ExoticTier)
ExoticSlots(ld, buckets) == { i \in buckets : IsExotic(ld[i]) }
LoadoutDone == lpc = "done"
\* The slots of a category whose exotic candidate beats the baseline pick.
Qualifying(buckets) ==
  { i \in buckets : exoticQualifies(exoticCandidates[i], baseline, i) }
Overridden(buckets) == { i \in buckets : loadout[i] # baseline[i] }
Margin(i) == ItemPower(exoticCandidates[i]) - ItemPower(baseline[i])

C7_AtMostOneExoticWeapon ==
  LoadoutDone => Cardinality(ExoticSlots(loadout, SeqRange(WeaponBuckets))) <= 1

C7_Witness ==
  /\ LoadoutDone
  /\ Cardinality(Qualifying(SeqRange(WeaponBuckets))) = 3
  /\ Cardinality(ExoticSlots(loadout, SeqRange(WeaponBuckets))) = 1

\* Three exotic armor candidates, in three of the slots helmet, gauntlets,
\* chest, legs, each beating its slot's baseline pick by a different margin;
\* no other armor slot has an exotic candidate.
C8_Case ==
  /\ LoadoutDone
  /\ Cardinality(Qualifying(SeqRange(ArmorBuckets))) = 3
  /\ \A i \in (SeqRange(ArmorBuckets) \cup SeqRange(ClassArmorBuckets))
               \ Qualifying(SeqRange(ArmorBuckets)) : exoticCandidates[i] = nil
  /\ \A i, j \in Qualifying(SeqRange(ArmorBuckets)) : i # j => Margin(i) # Margin(j)

\* C8 (as claimed): exactly one override is applied, the one of highest
\* margin, and the other two slots keep their baseline pick.
C8_HighestMarginApplied ==
  C8_Case =>
    \E i \in Qualifying(SeqRange(ArmorBuckets)) :
      /\ Overridden(SeqRange(ArmorBuckets) \cup SeqRange(ClassArmorBuckets)) = {i}
      /\ loadout[i] = exoticCandidates[i]
      /\ \A j \in Qualifying(SeqRange(ArmorBuckets)) : Margin(j) <= Margin(i)

\* C8 (amended): exactly one override is applied, one of highest power among
\* the three candidates, and the other two slots keep their baseline pick.
C8_HighestPowerApplied ==
  C8_Case =>
    \E i \in Qualifying(SeqRange(ArmorBuckets)) :
      /\ Overridden(SeqRange(ArmorBuckets) \cup SeqRange(ClassArmorBuckets)) = {i}
      /\ loadout[i] = exoticCandidates[i]
      /\ \A j \in Qualifying(SeqRange(ArmorBuckets)) :
           ItemPower(exoticCandidates[j]) <= ItemPower(exoticCandidates[i])

C8_Witness ==
  /\ C8_Case
  /\ \E i, j \in Qualifying(SeqRange(ArmorBuckets)) :
       /\ loadout[i] = exoticCandidates[i]
       /\ loadout[j] = baseline[j]
       /\ Margin(j) > Margin(i)

(***************************************************************************)
(* SpecTransfer.  transferItem on a set of stacks of one material, each on *)
(* a character or in the vault, towards a character or the vault, for a    *)
(* requested count or for all (-1).                                        *)
(***************************************************************************)
MaterialHash == HashOf(0, BasicTier, UnknownClassEnum)
Owners == {NoCharacter} \cup CharacterIDs

Stack(quantity, owner) ==
  [ItemHash |-> MaterialHash, InstanceID |-> 0, Quantity |-> quantity,
   TransferStatus |-> CanTransfer, IsEquipped |-> FALSE, PrimaryStat |-> -1,
   CharacterID |-> owner]

\* Lists of n stacks, each held either by src or by dest.
TransferItemSets(n, src, dest) ==
  { [k \in 1..n |-> Stack(q[k], o[k])] :
      q \in [1..n -> 1..MaxQuantity], o \in [1..n -> {src, dest}] }

\* Lists of n single units, each held either by src or by dest.
FaultItemSets(n, src, dest) ==
  { [k \in 1..n |-> Stack(1, o[k])] : o \in [1..n -> {src, dest}] }

\* The destination is the vault or the first character; the stacks that are
\* not on it already are all held by one other owner.  The platform either
\* answers every move call with success, or answers each call in any way;
\* the lists met by an unreliable platform are short lists of single units.
TransferInit ==
  /\ PoolIdle
  /\ PostIdle
  /\ tpc = "call"
  /\ destCharacter \in {NoCharacter, 1}
  /\ \/ /\ platform = "reliable"
        /\ \E n \in 0..MaxItems, src \in Owners \ {destCharacter} :
             itemSet \in TransferItemSets(n, src, destCharacter)
        /\ count \in {-1} \cup (1..MaxCount)
     \/ /\ platform = "unreliable"
        /\ \E n \in 1..MaxFaultItems, src \in Owners \ {destCharacter} :
             itemSet \in FaultItemSets(n, src, destCharacter)
        /\ count \in {-1} \cup (1..MaxFaultItems)
  /\ totalCount = 0
  /\ tasks = <<>>
  /\ destinationID = NoCharacter
  /\ BucketIdle
  /\ LoadoutIdle
  /\ EquipIdle
  /\ RequestIdle
  /\ PersistIdle
  /\ FixupIdle
  /\ HashesIdle

\* transferItem up to wg.Wait(): the dispatch loop.
TransferItemDispatch ==
  /\ tpc = "call"
  /\ LET r == transferLoop(itemSet, destCharacter, count, 1, 0, <<>>)
     IN /\ totalCount' = r.totalCount
        /\ tasks' = r.tasks
        /\ tpc' = IF r.panic THEN "panic" ELSE "waiting"
  /\ UNCHANGED <<platform, hashVars, poolVars, postVars, fixupVars, persistVars, requestVars, itemSet, destCharacter, count, destinationID, bucketVars, loadoutVars, equipVars>>

\* A task whose item is on a character posts the move to the vault.
MoveToVault(t) ==
  /\ tpc \in {"waiting", "panic"}
  /\ tasks[t].pc = "start"
  /\ tasks[t].item.CharacterID # NoCharacter
  /\ \E responses \in PlatformResponses(platform) :
       tasks' = [tasks EXCEPT
         ![t].calls = Append(@, MoveCall(tasks[t].item, tasks[t].numToTransfer, TRUE,
                                         tasks[t].item.CharacterID)),
         ![t].results = Append(@, PostTransferItem(responses).result),
         ![t].pc = afterToVault(destCharacter, PostTransferItem(responses).result)]
  /\ totalCount' = totalCountAfterTaskStep(totalCount, tasks[t])
  /\ UNCHANGED <<platform, hashVars, poolVars, postVars, fixupVars, persistVars, requestVars, tpc, itemSet, destCharacter, count, destinationID,
                 bucketVars, loadoutVars, equipVars>>

\* A task posts the move from the vault to the destination character and ends.
MoveFromVault(t) ==
  /\ tpc \in {"waiting", "panic"}
  /\ atFromVault(tasks[t])
  /\ destCharacter # NoCharacter
  /\ \E responses \in PlatformResponses(platform) :
       tasks' = [tasks EXCEPT
         ![t].calls = Append(@, MoveCall(tasks[t].item, tasks[t].numToTransfer, FALSE,
                                         destCharacter)),
         ![t].results = Append(@, PostTransferItem(responses).result),
         ![t].pc = "done"]
  /\ totalCount' = totalCountAfterTaskStep(totalCount, tasks[t])
  /\ UNCHANGED <<platform, hashVars, poolVars, postVars, fixupVars, persistVars, requestVars, tpc, itemSet, destCharacter, count, destinationID,
                 bucketVars, loadoutVars, equipVars>>

\* wg.Wait() returns once every task has called wg.Done(); return totalCount.
TransferItemReturn ==
  /\ tpc = "waiting"
  /\ allDone(tasks)
  /\ tpc' = "returned"
  /\ UNCHANGED <<platform, hashVars, poolVars, postVars, fixupVars, persistVars, requestVars, itemSet, destCharacter, count, totalCount, tasks, destinationID,
                 bucketVars, loadoutVars, equipVars>>

TransferNext ==
  \/ TransferItemDispatch
  \/ \E t \in 1..Len(tasks) : MoveToVault(t)
  \/ \E t \in 1..Len(tasks) : MoveFromVault(t)
  \/ TransferItemReturn

SpecTransfer == TransferInit /\ [][TransferNext]_vars

\* transferItem against an unreliable platform.  The Go scheduler runs every
\* runnable goroutine, every PostTransferItem ends after at most MaxAttempts
\* attempts, and wg.Wait() resumes once the last task is done.
FaultInit == TransferInit /\ platform = "unreliable"

SpecFaults == FaultInit /\ [][TransferNext]_vars /\ WF_vars(TransferNext)

(***************************************************************************)
(* Properties of transferItem.                                             *)
(***************************************************************************)
MinOf(a, b) == IF a < b THEN a ELSE b
\* The items of the set that are not already on the destination, in order.
ToMove == SelectSeq(itemSet, LAMBDA it : it.CharacterID # destCharacter)
RECURSIVE QuantityBefore(_, _)
QuantityBefore(items, k) ==
  IF k <= 1 THEN 0 ELSE QuantityBefore(items, k - 1) + items[k - 1].Quantity
\* The units item k gives when the units are drawn greedily in list order.
GreedyShare(items, k, c) ==
  IF QuantityBefore(items, k) >= c THEN 0
  ELSE MinOf(items[k].Quantity, c - QuantityBefore(items, k))

\* C10: for a count c > 0 transferItem returns min(c, units not on the
\* destination); the units are drawn greedily in list order, one task per
\* item that gives units, moving exactly its share, and no task for an item
\* after the one that reaches the cap.
C10_GreedyCount ==
  (tpc = "returned" /\ count > 0) =>
    /\ totalCount = MinOf(count, QuantityBefore(ToMove, Len(ToMove) + 1))
    /\ Len(tasks) = Cardinality({ k \in 1..Len(ToMove) : GreedyShare(ToMove, k, count) > 0 })
    /\ \A t \in 1..Len(tasks) :
         /\ tasks[t].item = ToMove[t]
         /\ tasks[t].numToTransfer = GreedyShare(ToMove, t, count)
         /\ Len(tasks[t].calls) >= 1
         /\ \A c \in 1..Len(tasks[t].calls) :
              tasks[t].calls[c].stackSize = GreedyShare(ToMove, t, count)

C10_Witness ==
  /\ tpc = "returned"
  /\ count = 5
  /\ Len(itemSet) = 3
  /\ itemSet[1].Quantity = 3 /\ itemSet[2].Quantity = 4 /\ itemSet[3].Quantity = 2
  /\ Len(ToMove) = 3
  /\ totalCount = 5
  /\ Len(tasks) = 2
  /\ tasks[1].numToTransfer = 3 /\ tasks[2].numToTransfer = 2

AllOnDestination == \A k \in 1..Len(itemSet) : itemSet[k].CharacterID = destCharacter

\* C11: when every item of the set is already owned by the destination (a
\* character, or the vault when the destination is none), transferItem
\* dispatches no task, so issues no move call, and returns zero.
C11_NothingToMove ==
  (tpc \in {"waiting", "returned"} /\ AllOnDestination) =>
    /\ totalCount = 0
    /\ tasks = <<>>

C11_Witness ==
  /\ tpc = "returned"
  /\ Len(itemSet) >= 2
  /\ AllOnDestination
  /\ destCharacter # NoCharacter
  /\ count > 0
  /\ totalCount = 0
  /\ tasks = <<>>

\* The move calls of a task, in order.
ExpectedCalls(task) ==
  (IF task.item.CharacterID # NoCharacter
   THEN << MoveCall(task.item, task.numToTransfer, TRUE, task.item.CharacterID) >>
   ELSE <<>>)
  \o (IF destCharacter # NoCharacter
      THEN << MoveCall(task.item, task.numToTransfer, FALSE, destCharacter) >>
      ELSE <<>>)

Failures == {"failed", "error", "throttled"}

\* C12: transferItem has returned only when every task it dispatched has
\* finished, whatever the interleaving of the tasks and whatever their move
\* calls met: after the return no task is still running.
C12_ReturnAfterAllTasks ==
  tpc = "returned" =>
    \A t \in 1..Len(tasks) :
      /\ tasks[t].pc = "done"
      /\ tasks[t].calls = ExpectedCalls(tasks[t])
      /\ Len(tasks[t].results) = Len(tasks[t].calls)

C12_Witness ==
  /\ tpc = "returned"
  /\ platform = "unreliable"
  /\ Len(tasks) = 2
  /\ tasks[1].results = << "throttled", "ok" >>
  /\ tasks[2].results = << "error", "failed" >>

\* C13: in every task an item on a character gets its to-vault call first
\* and its from-vault call only once the to-vault call has returned; an
\* item in the vault gets only the from-vault call; with no destination
\* character no from-vault call is issued.
C13_VaultFirst ==
  \A t \in 1..Len(tasks) :
    /\ Len(tasks[t].calls) <= Len(ExpectedCalls(tasks[t]))
    /\ tasks[t].calls = SubSeq(ExpectedCalls(tasks[t]), 1, Len(tasks[t].calls))
    /\ \A c \in 1..Len(tasks[t].calls) :
         ~tasks[t].calls[c].transferToVault =>
            /\ destCharacter # NoCharacter
            /\ \/ c = 1 /\ tasks[t].item.CharacterID = NoCharacter
               \/ /\ c = 2
                  /\ tasks[t].calls[1].transferToVault
                  /\ Len(tasks[t].results) >= 1
    /\ tasks[t].item.CharacterID = NoCharacter =>
         \A c \in 1..Len(tasks[t].calls) : ~tasks[t].calls[c].transferToVault

C13_Witness ==
  /\ tpc = "waiting"
  /\ Len(tasks) >= 2
  /\ tasks[1].item.CharacterID \notin {NoCharacter, destCharacter}
  /\ tasks[1].pc = "done"
  /\ Len(tasks[1].calls) = 2
  /\ tasks[1].calls[1].transferToVault /\ ~tasks[1].calls[2].transferToVault
  /\ tasks[2].pc = "vaulted"

\* The count transferItem returns when no call fails.
CountWithoutFailures ==
  IF count = -1 THEN QuantityBefore(ToMove, Len(ToMove) + 1)
  ELSE MinOf(count, QuantityBefore(ToMove, Len(ToMove) + 1))

\* C15: whichever move calls fail, transferItem ends, every task has issued
\* all of its move calls, and the count returned is the one returned when no
\* call fails.
C15_FailuresSwallowed ==
  (tpc = "call") ~>
    (/\ tpc = "returned"
     /\ totalCount = CountWithoutFailures
     /\ \A t \in 1..Len(tasks) : tasks[t].calls = ExpectedCalls(tasks[t]))

C15_Witness ==
  /\ tpc = "returned"
  /\ platform = "unreliable"
  /\ count = -1
  /\ Len(tasks) = 2
  /\ totalCount = 2
  /\ tasks[1].results[1] \in Failures
  /\ Len(tasks[1].calls) = 2
  /\ Len(tasks[2].calls) = 2
  /\ tasks[2].results = << "ok", "ok" >>

(***************************************************************************)
(* SpecEquip.  EquipMaxLightGear: fetch the profile, findMaxLightLoadout,  *)
(* calculateLightLevel, equipLoadout (swap, transferItem, equipItems), and *)
(* the response.  epc is "fetch", "find", "equipLoadout", "move",          *)
(* "responded", "error" or "panic".                                        *)
(***************************************************************************)

\* Loadout.calculateLightLevel, in thousandths.
calculateLightLevel(l) ==
  143 * ItemPower(l[Kinetic]) + 143 * ItemPower(l[Energy]) + 143 * ItemPower(l[Power])
  + 119 * ItemPower(l[Helmet]) + 119 * ItemPower(l[Gauntlets])
  + 119 * ItemPower(l[Chest]) + 119 * ItemPower(l[Legs])
  + 95 * ItemPower(l[ClassArmor])

\* Loadout.toSlice
toSlice(l) == [k \in 1..(ClassArmor - Kinetic + 1) |-> l[Kinetic + k - 1]]

\* The request of equipItem: client.PostEquipItem(equipRequestBody, false).
EquipCall(item, characterId) ==
  [itemId |-> item.InstanceID, characterId |-> characterId, isMultipleItems |-> FALSE]

\* swapEquippedItem: the equip requests it may post, none or one.
swapEquippedItem(item, prof) ==
  LET candidates ==
        FilterItems(
          FilterItems(
            FilterItems(prof.AllItems, "itemCharacterIDFilter", item.CharacterID),
            "itemBucketHashFilter", ItemBucketHash(item)),
          "itemNotTierTypeFilter", ExoticTier)
  IN IF Len(candidates) <= 1 THEN { <<>> }
     ELSE { << EquipCall(reverseLightSortedItems[1], item.CharacterID) >> :
              reverseLightSortedItems \in SortedByLightAsc(candidates) }

\* The condition of the first loop of equipLoadout; nil items are skipped.
needsSwap(item, destID) ==
  /\ item # nil
  /\ item.TransferStatus = ItemIsEquipped
  /\ item.CharacterID # NoCharacter
  /\ item.CharacterID # destID

\* The requests of the first loop of equipLoadout over the buckets in the
\* order given.
RECURSIVE swapCalls(_, _, _, _)
swapCalls(order, l, prof, destID) ==
  IF order = <<>> THEN { <<>> }
  ELSE LET first == IF needsSwap(l[Head(order)], destID)
                    THEN swapEquippedItem(l[Head(order)], prof)
                    ELSE { <<>> }
       IN { f \o rest : f \in first, rest \in swapCalls(Tail(order), l, prof, destID) }

\* The first loop of equipLoadout.  It ranges over a map, so the buckets
\* come in any order; only the order of the buckets that post matters.
swapEquippedItems(l, prof, destID) ==
  UNION { swapCalls(order, l, prof, destID) :
            order \in Orderings({ b \in LoadoutBuckets : needsSwap(l[b], destID) }) }

\* equipItems: the batched request client.PostEquipItem(equipRequestBody, true),
\* or a panic on an item without a character.
equipItems(items, characterID) ==
  LET wanted == SelectSeq(items, LAMBDA item :
                  /\ ~(item.TransferStatus = ItemIsEquipped /\ item.CharacterID = characterID)
                  /\ item.InstanceID # 0)
  IN [panic |-> \E k \in 1..Len(items) :
                   \/ items[k] = nil
                   \/ items[k].TransferStatus = ItemIsEquipped /\ items[k].CharacterID = NoCharacter,
      call |-> [itemIds |-> [k \in 1..Len(wanted) |-> wanted[k].InstanceID],
                characterId |-> characterID, isMultipleItems |-> TRUE]]

\* Handlers that answer a failed fetch with their success speech.
FetchErrors_NotReported == { "All set Guardian" }

\* GetProfileForCurrentUser: the errors it sends on the channel, for no
\* current account and for a failed profile request.
FetchErrors ==
  { "error: Couldn't load current user information",
    "error: Failed to read current user's profile" }

\* The profiles of SpecEquip.  The destination (the first character, a
\* Titan) has a legendary of power 1 equipped in every bucket but `missing`;
\* a mover is a legendary of power 2 somewhere else, and its spare a
\* legendary of power 1 in the same bucket of the same character.
EquippedOn(c) == [CharacterID |-> c, IsEquipped |-> TRUE]

ClassOfBucket(b) == IF b \in {Kinetic, Energy, Power, Ghost} THEN UnknownClassEnum ELSE TitanEnum

MoverBuckets == {Kinetic, Power, Helmet, ClassArmor}

MoverKinds ==
  { [loc |-> InVault, spare |-> FALSE] }
  \cup { [loc |-> OnCharacter(c), spare |-> FALSE] : c \in CharacterIDs \ {1} }
  \cup { [loc |-> EquippedOn(c), spare |-> sp] : c \in CharacterIDs \ {1}, sp \in BOOLEAN }

MoverChoices(maxMovers) ==
  UNION { [D -> MoverKinds] : D \in { E \in SUBSET MoverBuckets : Cardinality(E) <= maxMovers } }

EquipGear(missing, movers, b) ==
  (IF b = missing THEN <<>>
   ELSE << Gear(b, SuperiorTier, ClassOfBucket(b), IF b = Ghost THEN -1 ELSE 1, EquippedOn(1)) >>)
  \o (IF b \notin DOMAIN movers THEN <<>>
      ELSE << Gear(b, SuperiorTier, ClassOfBucket(b), 2, movers[b].loc) >>
           \o (IF movers[b].spare
               THEN << Gear(b, SuperiorTier, ClassOfBucket(b), 1,
                            OnCharacter(movers[b].loc.CharacterID)) >>
               ELSE <<>>))

RECURSIVE EquipEntries(_, _, _)
EquipEntries(missing, movers, b) ==
  IF b > ClassArmor THEN <<>>
  ELSE EquipGear(missing, movers, b) \o EquipEntries(missing, movers, b + 1)

EquipProfiles(maxMovers) ==
  { BuildItems(EquipEntries(missing, movers, Kinetic)) :
      missing \in {0} \cup LoadoutBuckets, movers \in MoverChoices(maxMovers) }

EquipInit ==
  /\ PoolIdle
  /\ PostIdle
  /\ epc = "fetch"
  /\ request = IntentRequest("MaxPower", EmptySlot, "", "")
  /\ response = "none"
  /\ fetches = 0
  /\ platform = "reliable"
  /\ light = NotComputed
  /\ equipCalls = <<>>
  /\ destinationID = NoCharacter
  /\ BucketIdle
  /\ LoadoutIdle
  /\ TransferIdle
  /\ PersistIdle
  /\ FixupIdle
  /\ HashesIdle

\* msg := <-profileChannel with msg.error == nil;
\* destinationID := msg.Profile.Characters[0].CharacterID
GetProfile ==
  /\ epc = "fetch"
  /\ \E a \in EquipProfiles(MaxMovers) :
       profile' = [Characters |-> Characters, AllItems |-> a]
  /\ destinationID' = profile'.Characters[1].CharacterID
  /\ lpc' = "input"
  /\ epc' = "find"
  /\ fetches' = fetches + 1
  /\ UNCHANGED <<platform, hashVars, poolVars, postVars, fixupVars, persistVars, request, response, baseline, exoticCandidates, loadout, light, equipCalls,
                 bucketVars, transferVars>>

\* msg.error != nil: return nil, msg.error
GetProfileError ==
  /\ epc = "fetch"
  /\ epc' = "error"
  /\ fetches' = fetches + 1
  /\ response' \in FetchErrors
  /\ UNCHANGED <<platform, hashVars, poolVars, postVars, fixupVars, persistVars, request, destinationID, light, equipCalls, bucketVars, loadoutVars, transferVars>>

\* glg.Infof("Calculated light for loadout: %f", loadout.calculateLightLevel())
CalculateLightLevel ==
  /\ epc = "find"
  /\ lpc = "done"
  /\ light' = calculateLightLevel(loadout)
  /\ epc' = "equipLoadout"
  /\ UNCHANGED <<platform, hashVars, poolVars, postVars, fixupVars, persistVars, requestVars, destinationID, equipCalls, bucketVars, loadoutVars, transferVars>>

\* equipLoadout up to the call of transferItem: the swap loop, then
\* moveLoadoutToCharacter hands loadout.toSlice() to transferItem.
EquipLoadout ==
  /\ epc = "equipLoadout"
  /\ \E calls \in swapEquippedItems(loadout, profile, destinationID) :
       equipCalls' = equipCalls \o calls
  /\ itemSet' = toSlice(loadout)
  /\ destCharacter' = findCharacterFromID(profile.Characters, destinationID).CharacterID
  /\ count' = -1
  /\ totalCount' = 0
  /\ tasks' = <<>>
  /\ tpc' = "call"
  /\ epc' = "move"
  /\ UNCHANGED <<platform, hashVars, poolVars, postVars, fixupVars, persistVars, requestVars, destinationID, light, bucketVars, loadoutVars>>

\* The panic of transferItem unwinds equipLoadout and EquipMaxLightGear.
TransferItemPanic ==
  /\ epc = "move"
  /\ tpc = "panic"
  /\ epc' = "panic"
  /\ response' = "panic"
  /\ UNCHANGED <<platform, hashVars, poolVars, postVars, fixupVars, persistVars, request, fetches, destinationID, light, equipCalls, bucketVars, loadoutVars, transferVars>>

\* equipItems(loadout.toSlice(), destinationID, ...) and the response.
EquipItems ==
  /\ epc = "move"
  /\ tpc = "returned"
  /\ LET r == equipItems(toSlice(loadout), destinationID)
     IN IF r.panic
        THEN epc' = "panic" /\ response' = "panic" /\ UNCHANGED equipCalls
        ELSE /\ epc' = "responded"
             /\ response' = IF request.intent = "EquipNamedLoadout"
                            THEN "All set Guardian, your loadout has been restored!"
                            ELSE "Max light equipped to your Guardian"
             /\ equipCalls' = Append(equipCalls, r.call)
  /\ UNCHANGED <<platform, hashVars, poolVars, postVars, fixupVars, persistVars, request, fetches, destinationID, light, bucketVars, loadoutVars, transferVars>>

EquipNext ==
  \/ GetProfile
  \/ GetProfileError
  \/ FindMaxLightLoadout
  \/ CalculateLightLevel
  \/ EquipLoadout
  \/ TransferItemDispatch
  \/ \E t \in 1..Len(tasks) : MoveToVault(t)
  \/ \E t \in 1..Len(tasks) : MoveFromVault(t)
  \/ TransferItemReturn
  \/ TransferItemPanic
  \/ EquipItems

SpecEquip == EquipInit /\ [][EquipNext]_vars

(***************************************************************************)
(* Properties of EquipMaxLightGear.                                        *)
(***************************************************************************)
HasNilSlot(l) == \E b \in LoadoutBuckets : l[b] = nil

\* C9: when findMaxLightLoadout has returned a loadout with a nil slot,
\* EquipMaxLightGear treats it as unusable: the power score is not computed
\* and neither equipLoadout nor any move or equip call is started on it.
C9_NilLoadoutUnused ==
  (epc # "off" /\ lpc = "done" /\ HasNilSlot(loadout)) =>
     /\ light = NotComputed
     /\ epc = "find"
     /\ tpc = "off"
     /\ tasks = <<>>
     /\ equipCalls = <<>>

\* The batched equip requests posted so far.
BatchedEquipCalls == SelectSeq(equipCalls, LAMBDA call : call.isMultipleItems)

\* C14: one equipLoadout operation issues at most one batched equip call,
\* issues it only when every move task of its transfer batch has finished
\* and transferItem has returned, after its single-item swap calls, and has
\* issued exactly one when it ends.
C14_OneBatchedEquipAfterMoves ==
  /\ Len(BatchedEquipCalls) <= 1
  /\ Len(BatchedEquipCalls) = 1 =>
       /\ tpc = "returned"
       /\ \A t \in 1..Len(tasks) :
            tasks[t].pc = "done" /\ tasks[t].calls = ExpectedCalls(tasks[t])
       /\ equipCalls[Len(equipCalls)].isMultipleItems
  /\ epc = "responded" => Len(BatchedEquipCalls) = 1
  /\ (epc = "move" /\ tpc = "returned") => Len(BatchedEquipCalls) = 0

C14_Witness ==
  /\ epc = "responded"
  /\ Len(tasks) = 2
  /\ Len(tasks[1].calls) = 2
  /\ Len(equipCalls) = 2
  /\ ~equipCalls[1].isMultipleItems
  /\ equipCalls[2].isMultipleItems
  /\ Len(equipCalls[2].itemIds) = 2

(***************************************************************************)
(* SpecIntents.  The intents TransferItem (its handler in package alexa    *)
(* and the function in package bungie), UnloadEngrams and MaxPower.  epc   *)
(* is the handler's position; response is what it has returned.            *)
(***************************************************************************)
commonAlexaItemTranslations(itemName) ==
  IF itemName \in {"motes", "motes of light"} THEN "mote of light" ELSE itemName

commonAlexaClassNameTrnaslations(class) ==
  CASE class = "fault" -> "vault"
    [] class = "tatum" -> "titan"
    [] OTHER -> class

\* hash, ok := itemHashLookup[itemName]
itemHashLookup(itemName) ==
  IF itemName = "mote of light" THEN [hash |-> MaterialHash, ok |-> TRUE]
  ELSE [hash |-> 0, ok |-> FALSE]

\* Character.ClassHash of a character of the class type, never zero.
ClassHashOf(classType) == 100 + classType

\* classNameToHash[class]: zero for a name that is no class.
classNameToHash(class) ==
  CASE class = "titan" -> ClassHashOf(TitanEnum)
    [] class = "hunter" -> ClassHashOf(HunterEnum)
    [] class = "warlock" -> ClassHashOf(WarlockEnum)
    [] OTHER -> 0

\* A lookup that falls back to the first character of the account.
findDestinationCharacter_FirstCharacter(charList, class) ==
  LET hits == SelectSeq(charList, LAMBDA ch : ClassHashOf(ch.ClassType) = classNameToHash(class))
  IN IF class = "vault" THEN [character |-> NoCharacter, err |-> FALSE]
     ELSE IF Len(hits) > 0 THEN [character |-> hits[1].CharacterID, err |-> FALSE]
     ELSE [character |-> charList[1].CharacterID, err |-> FALSE]

\* CharacterList.findDestinationCharacter
findDestinationCharacter(charList, class) ==
  LET hits == SelectSeq(charList, LAMBDA ch : ClassHashOf(ch.ClassType) = classNameToHash(class))
  IN IF class = "vault" THEN [character |-> NoCharacter, err |-> FALSE]
     ELSE IF Len(hits) > 0 THEN [character |-> hits[1].CharacterID, err |-> FALSE]
     ELSE [character |-> NoCharacter, err |-> TRUE]

\* count of alexa.TransferItem once the slot has passed its checks.
requestedCount(req) == IF req.count.kind = "number" THEN req.count.value ELSE -1

\* alexa.TransferItem up to the call of bungie.TransferItem: where the
\* handler goes and what it returns.  In the `tempCount <= 0` branch the
\* named result `response` is still nil when OutputSpeech is called on it:
\* the call panics on the nil receiver or, if it does not, nil is returned.
alexaTransferItem(req) ==
  IF req.count.kind = "text"
  THEN { [epc |-> "responded", response |-> "I didn't understand the number"] }
  ELSE IF req.count.kind = "number" /\ req.count.value <= 0
  THEN { [epc |-> "panic", response |-> "panic"], [epc |-> "responded", response |-> "nil"] }
  ELSE IF req.destination = ""
  THEN { [epc |-> "responded", response |-> "you must specify a destination"] }
  ELSE { [epc |-> "bungie.TransferItem", response |-> "none"] }

\* The requests of SpecIntents.
CountSlots(maxCount) == {EmptySlot, TextSlot} \cup { NumberSlot(n) : n \in (-1)..maxCount }

Requests(maxCount) ==
  { IntentRequest("TransferItem", c, i, d) :
      c \in CountSlots(maxCount), i \in {"motes", "spinmetal"},
      d \in {"", "vault", "tatum", "warlock"} }
  \cup { IntentRequest("UnloadEngrams", EmptySlot, "", ""),
         IntentRequest("MaxPower", EmptySlot, "", "") }

\* The profiles of the TransferItem and UnloadEngrams intents: the first m
\* characters of the account and n single items, motes of light or engrams,
\* each in the vault or on a character.
IntentProfiles(maxItems) ==
  UNION { UNION { { [Characters |-> SubSeq(Characters, 1, m),
                     AllItems |-> [k \in 1..n |-> [Stack(1, o[k]) EXCEPT !.ItemHash = h[k]]]] :
                      o \in [1..n -> {NoCharacter} \cup (1..m)],
                      h \in [1..n -> {MaterialHash, EngramHash}] } :
                  n \in 0..maxItems } :
          m \in {1, NumChars} }

IntentInit ==
  /\ PoolIdle
  /\ PostIdle
  /\ request \in Requests(MaxProfileItems)
  /\ epc = (CASE request.intent = "TransferItem" -> "alexa.TransferItem"
              [] request.intent = "UnloadEngrams" -> "unload fetch"
              [] OTHER -> "fetch")
  /\ response = "none"
  /\ fetches = 0
  /\ platform = "reliable"
  /\ light = NotComputed
  /\ equipCalls = <<>>
  /\ destinationID = NoCharacter
  /\ BucketIdle
  /\ LoadoutIdle
  /\ TransferIdle
  /\ PersistIdle
  /\ FixupIdle
  /\ HashesIdle

\* alexa.TransferItem: the checks of the Count and Destination slots.
AlexaTransferItem ==
  /\ epc = "alexa.TransferItem"
  /\ \E r \in alexaTransferItem(request) : epc' = r.epc /\ response' = r.response
  /\ UNCHANGED <<platform, hashVars, poolVars, postVars, fixupVars, persistVars, request, fetches, destinationID, light, equipCalls,
                 bucketVars, loadoutVars, transferVars>>

\* bungie.TransferItem up to the profile fetch: the item name is looked up.
BungieTransferItem ==
  /\ epc = "bungie.TransferItem"
  /\ IF itemHashLookup(commonAlexaItemTranslations(request.item)).ok
     THEN epc' = "transfer fetch" /\ UNCHANGED response
     ELSE epc' = "responded" /\ response' = "I could not find any items named"
  /\ UNCHANGED <<platform, hashVars, poolVars, postVars, fixupVars, persistVars, request, fetches, destinationID, light, equipCalls,
                 bucketVars, loadoutVars, transferVars>>

\* bungie.TransferItem: msg.error != nil: return nil, msg.error
TransferGetProfileError ==
  /\ epc = "transfer fetch"
  /\ epc' = "error"
  /\ fetches' = fetches + 1
  /\ response' \in FetchErrors
  /\ UNCHANGED <<platform, hashVars, poolVars, postVars, fixupVars, persistVars, request, destinationID, light, equipCalls,
                 bucketVars, loadoutVars, transferVars>>

\* bungie.TransferItem from the fetched profile to the call of transferItem.
TransferGetProfile ==
  /\ epc = "transfer fetch"
  /\ fetches' = fetches + 1
  /\ \E prof \in IntentProfiles(MaxProfileItems) :
       LET hash == itemHashLookup(commonAlexaItemTranslations(request.item)).hash
           matchingItems == FilterItems(prof.AllItems, "itemHashFilter", hash)
           dest == findDestinationCharacter(prof.Characters,
                     commonAlexaClassNameTrnaslations(request.destination))
       IN /\ profile' = prof
          /\ IF Len(matchingItems) = 0
             THEN /\ response' = "You don't have any on any of your characters"
                  /\ epc' = "responded"
                  /\ UNCHANGED transferVars
             ELSE IF dest.err
             THEN /\ response' = "you do not have any characters of that class"
                  /\ epc' = "responded"
                  /\ UNCHANGED transferVars
             ELSE /\ itemSet' = matchingItems
                  /\ destCharacter' = dest.character
                  /\ count' = requestedCount(request)
                  /\ totalCount' = 0
                  /\ tasks' = <<>>
                  /\ tpc' = "call"
                  /\ epc' = "transferring"
                  /\ UNCHANGED response
  /\ UNCHANGED <<platform, hashVars, poolVars, postVars, fixupVars, persistVars, request, destinationID, light, equipCalls, bucketVars,
                 lpc, baseline, exoticCandidates, loadout>>

\* bungie.TransferItem after transferItem has returned actualQuantity.
TransferItemResponse ==
  /\ epc = "transferring"
  /\ tpc = "returned"
  /\ response' = IF count # -1 /\ totalCount < count
                 THEN "You only had that many on other characters"
                 ELSE "All set Guardian"
  /\ epc' = "responded"
  /\ UNCHANGED <<platform, hashVars, poolVars, postVars, fixupVars, persistVars, request, fetches, destinationID, light, equipCalls,
                 bucketVars, loadoutVars, transferVars>>

\* UnloadEngrams: msg.error != nil: return nil, msg.error
UnloadGetProfileError ==
  /\ epc = "unload fetch"
  /\ epc' = "error"
  /\ fetches' = fetches + 1
  /\ response' \in FetchErrors
  /\ UNCHANGED <<platform, hashVars, poolVars, postVars, fixupVars, persistVars, request, destinationID, light, equipCalls,
                 bucketVars, loadoutVars, transferVars>>

\* UnloadEngrams from the fetched profile to the call of transferItem.
UnloadGetProfile ==
  /\ epc = "unload fetch"
  /\ fetches' = fetches + 1
  /\ \E prof \in IntentProfiles(MaxProfileItems) :
       LET matchingItems == FilterItems(prof.AllItems, "itemIsEngramFilter", TRUE)
       IN /\ profile' = prof
          /\ IF Len(matchingItems) = 0
             THEN /\ response' = "You don't have any engrams"
                  /\ epc' = "responded"
                  /\ UNCHANGED transferVars
             ELSE /\ itemSet' = matchingItems
                  /\ destCharacter' = NoCharacter
                  /\ count' = -1
                  /\ totalCount' = 0
                  /\ tasks' = <<>>
                  /\ tpc' = "call"
                  /\ epc' = "unloading"
                  /\ UNCHANGED response
  /\ UNCHANGED <<platform, hashVars, poolVars, postVars, fixupVars, persistVars, request, destinationID, light, equipCalls, bucketVars,
                 lpc, baseline, exoticCandidates, loadout>>

\* UnloadEngrams after transferItem has returned.
UnloadEngramsResponse ==
  /\ epc = "unloading"
  /\ tpc = "returned"
  /\ response' = "your engrams have been transferred to your vault"
  /\ epc' = "responded"
  /\ UNCHANGED <<platform, hashVars, poolVars, postVars, fixupVars, persistVars, request, fetches, destinationID, light, equipCalls,
                 bucketVars, loadoutVars, transferVars>>

IntentNext ==
  \/ AlexaTransferItem
  \/ BungieTransferItem
  \/ TransferGetProfileError
  \/ TransferGetProfile
  \/ TransferItemResponse
  \/ UnloadGetProfileError
  \/ UnloadGetProfile
  \/ UnloadEngramsResponse
  \/ EquipNext

SpecIntents == IntentInit /\ [][IntentNext]_vars

(***************************************************************************)
(* Properties of the intents.                                              *)
(***************************************************************************)
NoCallIssued == tpc = "off" /\ tasks = <<>> /\ equipCalls = <<>>

\* C16: when the profile fetch has failed, for no current account or for a
\* failed profile request, TransferItem, EquipMaxLightGear and UnloadEngrams
\* return that error for the whole request, having issued no move call and
\* no equip call.
C16_FetchFailureIsFatal ==
  epc = "error" =>
    /\ request.intent \in {"TransferItem", "UnloadEngrams", "MaxPower"}
    /\ response \in { "error: Couldn't load current user information",
                      "error: Failed to read current user's profile" }
    /\ fetches = 1
    /\ profile = EmptyProfile
    /\ NoCallIssued

C16_Witness ==
  /\ epc = "error"
  /\ request.intent = "TransferItem"
  /\ request.count = NumberSlot(1)
  /\ request.destination = "vault"
  /\ response = "error: Failed to read current user's profile"
  /\ NoCallIssued

\* C17: a TransferItem request whose Count slot is a number <= 0 is
\* answered by the handler with the 'positive, non-zero number' message,
\* and no profile fetch, move call or equip call is made for it.
C17_BadCountRejected ==
  (/\ request.intent = "TransferItem"
   /\ request.count.kind = "number"
   /\ request.count.value <= 0
   /\ epc # "alexa.TransferItem") =>
     /\ response = "you need to specify a positive, non-zero number"
     /\ fetches = 0
     /\ NoCallIssued

\* The destination class of the request names no character of the fetched
\* profile.
NoSuchClass ==
  /\ request.intent = "TransferItem"
  /\ fetches = 1
  /\ epc # "error"
  /\ request.destination # "vault"
  /\ \A k \in 1..Len(profile.Characters) :
       ClassHashOf(profile.Characters[k].ClassType)
         # classNameToHash(commonAlexaClassNameTrnaslations(request.destination))

OwnsRequestedItem ==
  \E k \in 1..Len(profile.AllItems) :
    profile.AllItems[k].ItemHash = itemHashLookup(commonAlexaItemTranslations(request.item)).hash

MaxSlots == 2
MaxStored == 3

\* &PersistedItem{ItemHash, InstanceID, BucketHash}
PersistedItem(itemHash, instanceID, bucketHash) ==
  [ItemHash |-> itemHash, InstanceID |-> instanceID, BucketHash |-> bucketHash]

\* Loadout.toPersistedLoadout, on a loadout without a nil slot.
toPersistedLoadout(l) ==
  [equipmentBucket \in DOMAIN l |->
     PersistedItem(l[equipmentBucket].ItemHash, l[equipmentBucket].InstanceID,
                   ItemBucketHash(l[equipmentBucket]))]

\* Reading item.ItemHash of a nil slot is a nil pointer dereference.
derefsNilSlot(l) == \E equipmentBucket \in DOMAIN l : l[equipmentBucket] = nil

\* A restore that takes the first item of the stored type hash, whatever its
\* instance.
fromPersistedLoadout_HashOnly(persisted, prof) ==
  [equipmentBucket \in DOMAIN persisted |->
     LET item == persisted[equipmentBucket]
         sameHashList == FilterItems(prof.AllItems, "itemHashFilter", item.ItemHash)
     IN  IF Len(sameHashList) <= 0 THEN nil ELSE sameHashList[1]]

\* A restore that looks for the stored instance id among all the items of
\* the profile instead of among the items of the stored type hash.
fromPersistedLoadout_AnyInstance(persisted, prof) ==
  [equipmentBucket \in DOMAIN persisted |->
     LET item == persisted[equipmentBucket]
         sameHashList == FilterItems(prof.AllItems, "itemHashFilter", item.ItemHash)
         exactInstances == FilterItems(prof.AllItems, "itemInstanceIDFilter", item.InstanceID)
     IN  IF Len(sameHashList) <= 0 THEN nil
         ELSE IF Len(exactInstances) > 0 THEN exactInstances[1]
         ELSE sameHashList[1]]

\* fromPersistedLoadout(persisted, profile)
fromPersistedLoadout(persisted, prof) ==
  [equipmentBucket \in DOMAIN persisted |->
     LET item == persisted[equipmentBucket]
         sameHashList == FilterItems(prof.AllItems, "itemHashFilter", item.ItemHash)
         exactInstances == FilterItems(sameHashList, "itemInstanceIDFilter", item.InstanceID)
     IN  IF Len(sameHashList) <= 0 THEN nil
         ELSE IF Len(exactInstances) > 0 THEN exactInstances[1]
         ELSE sameHashList[1]]

\* The type hashes of the stored gear: two kinetic weapons.
PersistHashes ==
  {HashOf(Kinetic, SuperiorTier, UnknownClassEnum), HashOf(Kinetic, ExoticTier, UnknownClassEnum)}

\* The profiles of at most maxStored items on one character.  The item at
\* position k is either instanced, with instance id k, or not instanced
\* (instance id 0, the empty string of the platform): instanced items never
\* share an instance id.
PersistProfiles(maxStored) ==
  UNION { { [Characters |-> <<[CharacterID |-> 1, ClassType |-> TitanEnum]>>,
             AllItems |-> [k \in 1..n |->
                MkItem(h[k], IF instanced[k] THEN k ELSE 0, 1, 1,
                       [CharacterID |-> 1, IsEquipped |-> FALSE])]] :
            h \in [1..n -> PersistHashes], instanced \in [1..n -> BOOLEAN] } :
          n \in 0..maxStored }

\* The persisted loadouts a database row can hold: the first n equipment
\* buckets, each with any stored type hash and any instance id, present in
\* the profile or not.
PersistedLoadouts(maxSlots, maxStored) ==
  UNION { [Kinetic..(Kinetic + n - 1) ->
             { PersistedItem(hash, id, bucketHashLookup(Kinetic)) :
                 hash \in PersistHashes, id \in 0..maxStored }] :
          n \in 0..maxSlots }

\* The loadouts built from a profile: the first n equipment buckets, each
\* holding one of the profile's items.
LoadoutsOf(prof, maxSlots) ==
  UNION { [Kinetic..(Kinetic + n - 1) -> { prof.AllItems[k] : k \in 1..Len(prof.AllItems) }] :
          n \in 0..maxSlots }

PersistInit ==
  /\ PoolIdle
  /\ PostIdle
  /\ destinationID = 1
  /\ platform = "reliable"
  /\ profile \in PersistProfiles(MaxStored)
  /\ lpc = "off" /\ baseline = EmptyLoadout
  /\ exoticCandidates = EmptyLoadout /\ loadout = EmptyLoadout
  /\ restoredLoadout = <<>>
  /\ \/ /\ ppc = "loaded"
        /\ savedLoadout = <<>>
        /\ persistedLoadout \in PersistedLoadouts(MaxSlots, MaxStored)
     \/ /\ ppc = "loadout"
        /\ savedLoadout \in LoadoutsOf(profile, MaxSlots)
        /\ persistedLoadout = <<>>
  /\ BucketIdle
  /\ TransferIdle
  /\ EquipIdle
  /\ RequestIdle
  /\ FixupIdle
  /\ HashesIdle

\* CreateLoadoutForCurrentCharacter: persistedLoadout := loadout.toPersistedLoadout()
ToPersistedLoadout ==
  /\ ppc = "loadout"
  /\ IF derefsNilSlot(savedLoadout)
     THEN ppc' = "panic" /\ UNCHANGED persistedLoadout
     ELSE ppc' = "persisted" /\ persistedLoadout' = toPersistedLoadout(savedLoadout)
  /\ UNCHANGED <<platform, hashVars, poolVars, postVars, fixupVars, requestVars, destinationID, savedLoadout, restoredLoadout,
                 bucketVars, loadoutVars, transferVars, equipVars>>

\* EquipNamedLoadout: loadout := fromPersistedLoadout(peristedLoadout, profile),
\* on a PersistedLoadout read from the database ("loaded") or on the one
\* just produced from a loadout of the same profile ("persisted").
FromPersistedLoadout ==
  /\ ppc \in {"loaded", "persisted"}
  /\ restoredLoadout' = fromPersistedLoadout(persistedLoadout, profile)
  /\ ppc' = IF ppc = "loaded" THEN "restored" ELSE "round trip"
  /\ UNCHANGED <<platform, hashVars, poolVars, postVars, fixupVars, requestVars, destinationID, savedLoadout, persistedLoadout,
                 bucketVars, loadoutVars, transferVars, equipVars>>

PersistNext == ToPersistedLoadout \/ FromPersistedLoadout

SpecPersist == PersistInit /\ [][PersistNext]_vars

\* The positions of the profile's items with the stored type hash, and with
\* the stored type hash and the stored instance id.
SameHashAt(stored) ==
  { k \in 1..Len(profile.AllItems) : profile.AllItems[k].ItemHash = stored.ItemHash }
ExactAt(stored) ==
  { k \in SameHashAt(stored) : profile.AllItems[k].InstanceID = stored.InstanceID }
FirstOf(S) == CHOOSE k \in S : \A j \in S : k <= j

\* C19: after fromPersistedLoadout the restored loadout has the slots of the
\* persisted one, and each slot holds the profile's item with the stored
\* type hash and the stored instance id if there is one, else the first
\* item in profile order with the stored type hash if there is one, else nil.
C19_ResolveSlot ==
  ppc = "restored" =>
    /\ DOMAIN restoredLoadout = DOMAIN persistedLoadout
    /\ \A b \in DOMAIN persistedLoadout :
         LET stored == persistedLoadout[b] IN
         IF ExactAt(stored) # {}
         THEN restoredLoadout[b] = profile.AllItems[FirstOf(ExactAt(stored))]
         ELSE IF SameHashAt(stored) # {}
         THEN restoredLoadout[b] = profile.AllItems[FirstOf(SameHashAt(stored))]
         ELSE restoredLoadout[b] = nil

\* A restore in which one slot finds its exact instance behind another item
\* of the same type hash, and another slot falls back to the first item of
\* its type hash because its instance is gone.
C19_Witness ==
  /\ ppc = "restored"
  /\ \E b \in DOMAIN persistedLoadout :
       /\ ExactAt(persistedLoadout[b]) # {}
       /\ FirstOf(ExactAt(persistedLoadout[b])) # FirstOf(SameHashAt(persistedLoadout[b]))
       /\ restoredLoadout[b].InstanceID = persistedLoadout[b].InstanceID
  /\ \E b \in DOMAIN persistedLoadout :
       /\ ExactAt(persistedLoadout[b]) = {}
       /\ SameHashAt(persistedLoadout[b]) # {}
       /\ restoredLoadout[b] # nil

\* C20: a loadout without a nil slot built from the profile, persisted and
\* restored against the same profile, comes back with the same slots and, in
\* every slot, an item of the original's type hash.
C20_RoundTripKeepsHashes ==
  ppc = "round trip" =>
    /\ DOMAIN restoredLoadout = DOMAIN savedLoadout
    /\ \A b \in DOMAIN savedLoadout :
         /\ restoredLoadout[b] # nil
         /\ restoredLoadout[b].ItemHash = savedLoadout[b].ItemHash

\* A round trip of a loadout with two slots of different type hashes whose
\* items are not instanced.
C20_Witness ==
  /\ ppc = "round trip"
  /\ Cardinality(DOMAIN savedLoadout) = MaxSlots
  /\ \E b, c \in DOMAIN savedLoadout :
       /\ savedLoadout[b].ItemHash # savedLoadout[c].ItemHash
       /\ savedLoadout[b].InstanceID = 0
       /\ savedLoadout[c].InstanceID = 0
       /\ restoredLoadout[b].ItemHash = savedLoadout[b].ItemHash
       /\ restoredLoadout[c].ItemHash = savedLoadout[c].ItemHash

(***************************************************************************)
(* SpecRestore.  EquipNamedLoadout: the persisted loadout read from the    *)
(* database is resolved against the profile just fetched and handed to     *)
(* equipLoadout.  The persisted loadout is what CreateLoadoutForCurrent-   *)
(* Character stored at an earlier time, from an earlier profile.           *)
(***************************************************************************)

\* loadoutFromProfile: for every equipment bucket that holds an item, the
\* last item of the list in that bucket.
loadoutFromProfile(prof) ==
  LET InBucket(b) ==
        { k \in 1..Len(prof.AllItems) : ItemBucketHash(prof.AllItems[k]) = bucketHashLookup(b) }
  IN  [b \in { c \in LoadoutBuckets : InBucket(c) # {} } |->
         prof.AllItems[CHOOSE k \in InBucket(b) : \A j \in InBucket(b) : j <= k]]

\* CreateLoadoutForCurrentCharacter: what is stored for a profile, the
\* persisted loadout of the items on the first character.
storedLoadout(prof) ==
  toPersistedLoadout(loadoutFromProfile(
    [prof EXCEPT !.AllItems =
       FilterItems(prof.AllItems, "itemCharacterIDFilter", prof.Characters[1].CharacterID)]))

\* loadout[bucket] for every equipment bucket: a key that is not in the map
\* reads as nil.
mapLookup(l) == [b \in LoadoutBuckets |-> IF b \in DOMAIN l THEN l[b] ELSE nil]

\* The bucket the first character had nothing equipped in when the loadout
\* was saved (0: none).
SavedMissing == {0, Ghost}

RestoreInit ==
  /\ PoolIdle
  /\ PostIdle
  /\ epc = "restore"
  /\ request = IntentRequest("EquipNamedLoadout", EmptySlot, "", "")
  /\ response = "none"
  /\ fetches = 1
  /\ platform = "reliable"
  /\ light = NotComputed
  /\ equipCalls = <<>>
  /\ \E a \in EquipProfiles(MaxMovers) :
       profile = [Characters |-> Characters, AllItems |-> a]
  /\ destinationID = profile.Characters[1].CharacterID
  /\ \E m \in SavedMissing :
       persistedLoadout =
         storedLoadout([Characters |-> Characters,
                        AllItems |-> BuildItems(EquipEntries(m, <<>>, Kinetic))])
  /\ ppc = "loaded"
  /\ savedLoadout = <<>>
  /\ restoredLoadout = <<>>
  /\ lpc = "off" /\ baseline = EmptyLoadout
  /\ exoticCandidates = EmptyLoadout /\ loadout = EmptyLoadout
  /\ BucketIdle
  /\ TransferIdle
  /\ FixupIdle
  /\ HashesIdle

\* loadout := fromPersistedLoadout(peristedLoadout, profile), the argument
\* of equipLoadout.
RestoreLoadout ==
  /\ epc = "restore"
  /\ restoredLoadout' = fromPersistedLoadout(persistedLoadout, profile)
  /\ loadout' = mapLookup(restoredLoadout')
  /\ ppc' = "restored"
  /\ epc' = "equipLoadout"
  /\ UNCHANGED <<platform, hashVars, poolVars, postVars, fixupVars, requestVars, destinationID, light, equipCalls, savedLoadout,
                 persistedLoadout, lpc, profile, baseline, exoticCandidates, bucketVars,
                 transferVars>>

RestoreNext ==
  \/ RestoreLoadout
  \/ EquipLoadout
  \/ TransferItemDispatch
  \/ \E t \in 1..Len(tasks) : MoveToVault(t)
  \/ \E t \in 1..Len(tasks) : MoveFromVault(t)
  \/ TransferItemReturn
  \/ TransferItemPanic
  \/ EquipItems

SpecRestore == RestoreInit /\ [][RestoreNext]_vars

\* The restore left a slot unresolved: nil, or not in the persisted loadout.
UnresolvedSlot ==
  /\ request.intent = "EquipNamedLoadout"
  /\ ppc = "restored"
  /\ HasNilSlot(loadout)

\* C21: when the restore of a named loadout leaves a slot unresolved,
\* EquipNamedLoadout does not crash: the operation goes on to move and equip
\* the items of the resolved slots.
C21_UnresolvedSlotTolerated ==
  UnresolvedSlot => epc # "panic"

(***************************************************************************)
(* The filter engine leaves its input alone.                               *)
(***************************************************************************)
\* The filters and arguments findMaxLightLoadout and sortGearBucket use.
FilterUses ==
  { <<"itemClassTypeFilter", c>> : c \in {TitanEnum, HunterEnum, WarlockEnum} }
  \cup { <<"itemNotTierTypeFilter", ExoticTier>>, <<"itemTierTypeFilter", ExoticTier>> }
  \cup { <<"itemBucketHashFilter", bucketHashLookup(b)>> : b \in LoadoutBuckets }

\* result holds exactly the items of the list that satisfy the filter, in
\* the order of the list.
IsSubListOf(result, items, filter, arg) ==
  LET kept == SelectSeq([k \in 1..Len(items) |-> k],
                        LAMBDA k : callFilter(filter, items[k], arg))
  IN  /\ Len(result) = Len(kept)
      /\ \A j \in 1..Len(result) : result[j] = items[kept[j]]

\* C22: findMaxLightLoadout, with all its FilterItems and sortGearBucket
\* calls, leaves profile.AllItems with the same items in the same order,
\* and every filter applied to it returns the order-preserving sub-list of
\* the items that satisfy the predicate.
C22_FiltersLeaveInputAlone ==
  [][(lpc = "input" /\ lpc' = "done") =>
       /\ profile'.AllItems = profile.AllItems
       /\ \A u \in FilterUses :
            IsSubListOf(FilterItems(profile.AllItems, u[1], u[2]), profile.AllItems, u[1], u[2])]_vars

\* findMaxLightLoadout has run on a profile that holds exotics behind
\* non-exotics and, in one bucket, a weaker item ahead of a stronger one,
\* so that its filters drop items and its sorts reorder them.
C22_Witness ==
  /\ lpc = "done"
  /\ \E i, j \in 1..Len(profile.AllItems) :
       /\ i < j
       /\ itemTierTypeFilter(profile.AllItems[j], ExoticTier)
       /\ itemNotTierTypeFilter(profile.AllItems[i], ExoticTier)
  /\ \E i, j \in 1..Len(profile.AllItems) :
       /\ i < j
       /\ ItemBucketHash(profile.AllItems[i]) = ItemBucketHash(profile.AllItems[j])
       /\ ItemPower(profile.AllItems[i]) < ItemPower(profile.AllItems[j])
  /\ loadout # EmptyLoadout

(***************************************************************************)
(* SpecFixup.  fixupProfileFromProfileResponse on responses in which any   *)
(* of the components may be absent (a nil pointer).  A response is a       *)
(* record that says which components are present; the data of a present   *)
(* component is fixed: every character has one equipped helmet and one     *)
(* energy weapon in its inventory, the profile inventory (the vault) holds *)
(* one kinetic weapon, instanced or not, and the currencies one stack.     *)
(***************************************************************************)
GetProfileResponses ==
  [Profile : BOOLEAN, Characters : BOOLEAN, ProfileCurrencies : BOOLEAN,
   ProfileInventory : BOOLEAN, CharacterEquipment : BOOLEAN,
   CharacterInventories : BOOLEAN,
   ItemComponents : {"absent", "no instances", "instances"},
   vaultItemInstanced : BOOLEAN]

\* An item as it is decoded from the response.
ResponseItem(hash, instanceID) ==
  [ItemHash |-> hash, InstanceID |-> instanceID, Quantity |-> 1, TransferStatus |-> CanTransfer]

ProfileCurrenciesItems == << ResponseItem(MaterialHash, 0) >>
ProfileInventoryItems(r) ==
  << ResponseItem(HashOf(Kinetic, SuperiorTier, UnknownClassEnum),
                  IF r.vaultItemInstanced THEN 1 ELSE 0) >>
CharacterEquipmentItems(c) ==
  << ResponseItem(HashOf(Helmet, SuperiorTier, ClassTypeOf(c)), 10 + c) >>
CharacterInventoriesItems(c) ==
  << ResponseItem(HashOf(Energy, SuperiorTier, UnknownClassEnum), 20 + c) >>

\* ItemComponents.Instances.Data[instanceID]: the equipped helmets are
\* equipped, and every instance has a primary stat.
InstanceData(instanceID) ==
  [IsEquipped |-> instanceID \in { 10 + c : c \in CharacterIDs }, PrimaryStat |-> 1]
NoInstance == [IsEquipped |-> FALSE, PrimaryStat |-> -1]

\* The *Item after the fix-up: the decoded item with its Character and its
\* ItemInstance attached.
FixedItem(item, characterID, instance) ==
  [ItemHash |-> item.ItemHash, InstanceID |-> item.InstanceID, Quantity |-> item.Quantity,
   TransferStatus |-> item.TransferStatus, IsEquipped |-> instance.IsEquipped,
   PrimaryStat |-> instance.PrimaryStat, CharacterID |-> characterID]

\* sort.Sort(sort.Reverse(LastPlayedSort(profile.Characters))): the
\* characters were last played at different times, character 1 latest.
DateLastPlayed(c) == NumChars - c
sortedByLastPlayed ==
  CHOOSE chars \in Orderings({ Characters[c] : c \in CharacterIDs }) :
    \A i, j \in 1..Len(chars) :
      i < j => DateLastPlayed(chars[i].CharacterID) > DateLastPlayed(chars[j].CharacterID)

\* The items of a per-character component: the owner is attached when the
\* Characters component is present, the instance when ItemComponents and
\* its Instances are.
characterItems(r, c, list) ==
  [k \in 1..Len(list) |->
     FixedItem(list[k],
               IF r.Characters THEN c ELSE NoCharacter,
               IF list[k].InstanceID # 0 /\ r.ItemComponents = "instances"
               THEN InstanceData(list[k].InstanceID) ELSE NoInstance)]

RECURSIVE flattenCharacters(_, _, _)
flattenCharacters(r, order, equipment) ==
  IF order = <<>> THEN <<>>
  ELSE characterItems(r, Head(order),
                      IF equipment THEN CharacterEquipmentItems(Head(order))
                      ELSE CharacterInventoriesItems(Head(order)))
       \o flattenCharacters(r, Tail(order), equipment)

\* fixupProfileFromProfileResponse: the outcomes, one for every order in
\* which the two per-character maps are ranged over.  The ProfileInventory
\* loop reads response.Response.ItemComponents.Instances.Data for every
\* instanced item without looking whether ItemComponents or Instances is nil.
fixupProfileFromProfileResponse(r) ==
  LET panics ==
        /\ r.ProfileInventory
        /\ \E k \in 1..Len(ProfileInventoryItems(r)) : ProfileInventoryItems(r)[k].InstanceID # 0
        /\ r.ItemComponents # "instances"
      currencies ==
        IF r.ProfileCurrencies
        THEN [k \in 1..Len(ProfileCurrenciesItems) |->
                FixedItem(ProfileCurrenciesItems[k], NoCharacter, NoInstance)]
        ELSE <<>>
      vault ==
        IF r.ProfileInventory
        THEN [k \in 1..Len(ProfileInventoryItems(r)) |->
                FixedItem(ProfileInventoryItems(r)[k], NoCharacter,
                          IF ProfileInventoryItems(r)[k].InstanceID # 0
                          THEN InstanceData(ProfileInventoryItems(r)[k].InstanceID)
                          ELSE NoInstance)]
        ELSE <<>>
  IN  IF panics THEN { [panic |-> TRUE, profile |-> EmptyProfile] }
      ELSE { [panic |-> FALSE,
              profile |->
                [Characters |-> IF r.Characters THEN sortedByLastPlayed ELSE <<>>,
                 AllItems |->
                   currencies \o vault
                   \o (IF r.CharacterEquipment
                       THEN flattenCharacters(r, equipmentOrder, TRUE) ELSE <<>>)
                   \o (IF r.CharacterInventories
                       THEN flattenCharacters(r, inventoriesOrder, FALSE) ELSE <<>>)]] :
             equipmentOrder \in Orderings(CharacterIDs),
             inventoriesOrder \in Orderings(CharacterIDs) }

FixupInit ==
  /\ PoolIdle
  /\ PostIdle
  /\ HashesIdle
  /\ fpc = "response"
  /\ profileResponse \in GetProfileResponses
  /\ destinationID = NoCharacter
  /\ platform = "reliable"
  /\ BucketIdle
  /\ LoadoutIdle
  /\ TransferIdle
  /\ EquipIdle
  /\ RequestIdle
  /\ PersistIdle

\* profile := fixupProfileFromProfileResponse(profileResponse)
FixupProfile ==
  /\ fpc = "response"
  /\ \E outcome \in fixupProfileFromProfileResponse(profileResponse) :
       IF outcome.panic
       THEN fpc' = "panic" /\ UNCHANGED profile
       ELSE fpc' = "fixed" /\ profile' = outcome.profile
  /\ UNCHANGED <<platform, hashVars, poolVars, postVars, persistVars, requestVars, destinationID, profileResponse, lpc,
                 baseline, exoticCandidates, loadout, bucketVars, transferVars, equipVars>>

FixupNext == FixupProfile

SpecFixup == FixupInit /\ [][FixupNext]_vars

\* C23: fixupProfileFromProfileResponse returns a profile, without failing,
\* whichever components of the response are absent; when Characters is
\* absent the character list is nil and no item has an owner.
C23_FixupToleratesAbsence ==
  /\ fpc # "panic"
  /\ (fpc = "fixed" /\ ~profileResponse.Characters) =>
       /\ profile.Characters = <<>>
       /\ \A k \in 1..Len(profile.AllItems) : profile.AllItems[k].CharacterID = NoCharacter

(***************************************************************************)
(* SpecPool.  The shared ClientPool used by concurrent goroutines: the     *)
(* move tasks of one request and the handlers of different requests.  A    *)
(* caller runs what a move task runs for each of its calls:                *)
(*   transferClient := Clients.Get()                                       *)
(*   transferClient.AddAuthValues(client.AccessToken, client.APIToken)     *)
(*   transferClient.PostTransferItem(body)                                 *)
(* Get, AddAuthValues and the reading of the token for the request's       *)
(* headers take no lock, so their reads and writes of pool.current and of  *)
(* the client's AccessToken interleave freely.  Clients are numbered from  *)
(* 0 as in the slice; token 0 is the empty token of a fresh client.        *)
(***************************************************************************)
MaxPool == 2
MaxCallers == 2

\* The to-vault and the from-vault call of a move task.
CallsPerTask == 2

\* A goroutine about to call Clients.Get() for the request whose access
\* token is `token`.  The callers are the tasks of one request (one token)
\* or belong to a request each.
NewCaller(token) ==
  [pc |-> "get", token |-> token, client |-> -1, tmp |-> 0, sent |-> 0, calls |-> 0]

PoolInit ==
  /\ PostIdle
  /\ poolSize \in 1..MaxPool
  /\ current = 0
  /\ clientTokens = [i \in 1..poolSize |-> 0]
  /\ \E n \in 1..MaxCallers :
       callers \in { [c \in 1..n |-> NewCaller(((c - 1) % requests) + 1)] : requests \in {1, n} }
  /\ destinationID = NoCharacter
  /\ platform = "reliable"
  /\ BucketIdle
  /\ LoadoutIdle
  /\ TransferIdle
  /\ EquipIdle
  /\ RequestIdle
  /\ PersistIdle
  /\ FixupIdle
  /\ HashesIdle

PoolFrame ==
  UNCHANGED <<platform, hashVars, fixupVars, postVars, persistVars, requestVars, destinationID, poolSize,
              bucketVars, loadoutVars, transferVars, equipVars>>

\* Get: c := pool.Clients[pool.current]; an index outside the slice panics.
GetClient(c) ==
  /\ callers[c].pc = "get"
  /\ callers' = [callers EXCEPT ![c] =
       IF current \in 0..(poolSize - 1)
       THEN [@ EXCEPT !.pc = "test", !.client = current]
       ELSE [@ EXCEPT !.pc = "panic"]]
  /\ UNCHANGED <<current, clientTokens>>
  /\ PoolFrame

\* Get: if pool.current == (len(pool.Clients) - 1)
GetTest(c) ==
  /\ callers[c].pc = "test"
  /\ callers' = [callers EXCEPT ![c].pc = IF current = poolSize - 1 THEN "reset" ELSE "load"]
  /\ UNCHANGED <<current, clientTokens>>
  /\ PoolFrame

\* Get: pool.current = 0
GetReset(c) ==
  /\ callers[c].pc = "reset"
  /\ current' = 0
  /\ callers' = [callers EXCEPT ![c].pc = "auth"]
  /\ UNCHANGED clientTokens
  /\ PoolFrame

\* Get: pool.current++, the read of pool.current
GetLoad(c) ==
  /\ callers[c].pc = "load"
  /\ callers' = [callers EXCEPT ![c].pc = "store", ![c].tmp = current]
  /\ UNCHANGED <<current, clientTokens>>
  /\ PoolFrame

\* Get: pool.current++, the write of pool.current
GetStore(c) ==
  /\ callers[c].pc = "store"
  /\ current' = callers[c].tmp + 1
  /\ callers' = [callers EXCEPT ![c].pc = "auth", ![c].tmp = 0]
  /\ UNCHANGED clientTokens
  /\ PoolFrame

\* Client.AddAuthValues: c.AccessToken = accessToken, on the shared client.
AddAuthValues(c) ==
  /\ callers[c].pc = "auth"
  /\ clientTokens' = [clientTokens EXCEPT ![callers[c].client + 1] = callers[c].token]
  /\ callers' = [callers EXCEPT ![c].pc = "post"]
  /\ UNCHANGED current
  /\ PoolFrame

\* PostTransferItem: c.AddAuthHeadersToRequest(req) puts the client's
\* AccessToken of that moment into the request.
PostWithToken(c) ==
  /\ callers[c].pc = "post"
  /\ callers' = [callers EXCEPT
       ![c].sent = clientTokens[callers[c].client + 1],
       ![c].calls = @ + 1,
       ![c].pc = IF callers[c].calls + 1 < CallsPerTask THEN "get" ELSE "done"]
  /\ UNCHANGED <<current, clientTokens>>
  /\ PoolFrame

PoolNext ==
  \/ \E c \in DOMAIN callers : GetClient(c)
  \/ \E c \in DOMAIN callers : GetTest(c)
  \/ \E c \in DOMAIN callers : GetReset(c)
  \/ \E c \in DOMAIN callers : GetLoad(c)
  \/ \E c \in DOMAIN callers : GetStore(c)
  \/ \E c \in DOMAIN callers : AddAuthValues(c)
  \/ \E c \in DOMAIN callers : PostWithToken(c)

SpecPool == PoolInit /\ [][PoolNext]_vars

C25_OwnAccessToken ==
  \A c \in DOMAIN callers : callers[c].sent \in {0, callers[c].token}

(***************************************************************************)
(* The override of findMaxLightLoadout, per exotic category.               *)
(***************************************************************************)
\* The exotics of the profile that qualify in a category: usable by the
\* destination's class, in a bucket of the category, and of a power
\* strictly greater than that of the bucket's baseline pick.
QualifyingExotics(buckets) ==
  { it \in SeqRange(profile.AllItems) :
      /\ IsExotic(it)
      /\ itemClassTypeFilter(it, findCharacterFromID(profile.Characters, destinationID).ClassType)
      /\ \E b \in buckets :
           /\ itemBucketHashFilter(it, bucketHashLookup(b))
           /\ ItemPower(it) > ItemPower(baseline[b]) }

ExoticCategories == { SeqRange(WeaponBuckets), SeqRange(ArmorBuckets) }

\* C26: in the weapon category and in the helmet/gauntlets/chest/legs
\* category, findMaxLightLoadout applies one override when some exotic
\* qualifies and none otherwise; the override is a qualifying exotic of
\* maximal power among the qualifying exotics of the category; the other
\* slots keep their non-exotic baseline pick, and no slot ends with less
\* power than its baseline pick.
C26_OverrideIsBestQualifying ==
  lpc = "done" =>
    /\ \A cat \in ExoticCategories :
         LET qualifying == QualifyingExotics(cat)
             overridden == Overridden(cat)
         IN  /\ Cardinality(overridden) = IF qualifying = {} THEN 0 ELSE 1
             /\ \A b \in overridden :
                  /\ loadout[b] \in qualifying
                  /\ itemBucketHashFilter(loadout[b], bucketHashLookup(b))
                  /\ \A q \in qualifying : ItemPower(q) <= ItemPower(loadout[b])
             /\ \A b \in cat \ overridden : loadout[b] = baseline[b] /\ ~IsExotic(loadout[b])
    /\ \A b \in LoadoutBuckets : ItemPower(loadout[b]) >= ItemPower(baseline[b])

\* Two exotics of different power qualify in two armor slots, the weaker in
\* the earlier slot; the override is the stronger one and the earlier slot
\* keeps its baseline pick.
C26_Witness ==
  /\ lpc = "done"
  /\ \E b, c \in SeqRange(ArmorBuckets) :
       /\ b < c
       /\ exoticQualifies(exoticCandidates[b], baseline, b)
       /\ exoticQualifies(exoticCandidates[c], baseline, c)
       /\ ItemPower(exoticCandidates[b]) < ItemPower(exoticCandidates[c])
       /\ loadout[c] = exoticCandidates[c]
       /\ loadout[b] = baseline[b]
       /\ baseline[b] # nil

(***************************************************************************)
(* SpecPost.  The retry loop of PostTransferItem and PostEquipItem, one    *)
(* HTTP attempt per step.  An attempt meets a transport error (c.Do        *)
(* returns err), a throttling response (ErrorCode 36, or ErrorStatus       *)
(* "ThrottleLimitExceededMomentarily"), or another response ("ok",         *)
(* "failed").  Neither function has a result: nothing is reported.         *)
(***************************************************************************)
ThrottleAnswers == {"ErrorCode 36", "ThrottleLimitExceededMomentarily"}
Answers == {"ok", "failed", "error"} \cup ThrottleAnswers

\* A loop without the ceiling on attempts.
postAttempt_NoCeiling(n, answer) ==
  IF answer = "error" THEN [attempts |-> n, pc |-> "returned"]
  ELSE [attempts |-> n + 1,
        pc |-> IF answer \notin ThrottleAnswers THEN "returned" ELSE "loop"]

\* One iteration of the loop, begun with attempts = n: the state it leaves.
postAttempt(n, answer) ==
  IF answer = "error" THEN [attempts |-> n, pc |-> "returned"]
  ELSE [attempts |-> n + 1,
        pc |-> IF answer \notin ThrottleAnswers \/ n + 1 >= MaxAttempts
               THEN "returned" ELSE "loop"]

PostInit ==
  /\ PoolIdle
  /\ postpc = "loop"
  /\ postCall \in {"PostTransferItem", "PostEquipItem single", "PostEquipItem multiple"}
  /\ attempts = 0
  /\ answers = <<>>
  /\ destinationID = NoCharacter
  /\ platform = "unreliable"
  /\ BucketIdle
  /\ LoadoutIdle
  /\ TransferIdle
  /\ EquipIdle
  /\ RequestIdle
  /\ PersistIdle
  /\ FixupIdle
  /\ HashesIdle

\* One pass through the body of the for loop.  The number of answers is
\* capped for the sake of a loop without a ceiling.
PostAttempt ==
  /\ postpc = "loop"
  /\ Len(answers) <= MaxAttempts
  /\ \E answer \in Answers :
       /\ answers' = Append(answers, answer)
       /\ attempts' = postAttempt(attempts, answer).attempts
       /\ postpc' = postAttempt(attempts, answer).pc
  /\ UNCHANGED <<platform, hashVars, fixupVars, poolVars, persistVars, requestVars, destinationID, postCall,
                 bucketVars, loadoutVars, transferVars, equipVars>>

PostNext == PostAttempt

SpecPost == PostInit /\ [][PostNext]_vars

\* Every HTTP attempt ends, with a response or with a transport error, and
\* the one-second sleep ends: the loop body is always eventually run.
FairSpecPost == SpecPost /\ WF_vars(PostAttempt)

\* C27: the call returns; it makes at most MaxAttempts HTTP attempts; every
\* attempt but the last met a throttling response; and it has returned
\* exactly when the last attempt met a transport error or a response that
\* is no throttling response, or was the fifth attempt.
C27_AtMostFiveAttempts ==
  /\ <>(postpc = "returned")
  /\ [](/\ Len(answers) <= MaxAttempts
        /\ \A k \in 1..(Len(answers) - 1) : answers[k] \in ThrottleAnswers
        /\ postpc = "returned" <=>
             /\ answers # <<>>
             /\ \/ answers[Len(answers)] \notin ThrottleAnswers
                \/ Len(answers) = MaxAttempts)

\* The call was abandoned after five throttled attempts.
C27_Witness ==
  /\ postpc = "returned"
  /\ postCall = "PostEquipItem multiple"
  /\ Len(answers) = MaxAttempts
  /\ \A k \in 1..Len(answers) : answers[k] \in ThrottleAnswers
  /\ attempts = MaxAttempts

(***************************************************************************)
(* The running total of a transfer batch.                                  *)
(***************************************************************************)
RECURSIVE SumNumToTransfer(_)
SumNumToTransfer(ts) ==
  IF ts = <<>> THEN 0 ELSE Head(ts).numToTransfer + SumNumToTransfer(Tail(ts))

\* C28: while the move tasks run, in whatever order their steps come, and
\* when transferItem has returned, the total is the sum of the amounts
\* computed for the dispatched items: no task step changes it and no update
\* of the dispatch loop is lost.
C28_TotalIsSumOfTasks ==
  tpc \in {"waiting", "returned"} => totalCount = SumNumToTransfer(tasks)

\* Two tasks moving different amounts are both between their two calls.
C28_Witness ==
  /\ tpc = "waiting"
  /\ Len(tasks) = 2
  /\ tasks[1].pc = "vaulted"
  /\ tasks[2].pc = "vaulted"
  /\ tasks[1].numToTransfer # tasks[2].numToTransfer
  /\ totalCount = tasks[1].numToTransfer + tasks[2].numToTransfer

(***************************************************************************)
(* SpecHashes: itemHashesFilter applied to an item and a list of hashes.   *)
(***************************************************************************)
MaxHashes == 3

\* The type hashes of the lists and of the item.
ListHashes == {HashOf(Kinetic, SuperiorTier, UnknownClassEnum),
               HashOf(Kinetic, ExoticTier, UnknownClassEnum),
               HashOf(Ghost, SuperiorTier, UnknownClassEnum),
               MaterialHash}

\* Every []uint of at most n elements of ListHashes.
HashLists(n) == UNION { [1..k -> ListHashes] : k \in 0..n }

\* The *Item arguments: nil, or an item of one of the hashes.
HashItems ==
  {nil} \cup { MkItem(h, 1, 1, 10, [CharacterID |-> NoCharacter, IsEquipped |-> FALSE]) :
              h \in ListHashes }

HashesInit ==
  /\ PoolIdle
  /\ PostIdle
  /\ FixupIdle
  /\ hpc = "call"
  /\ hashItem \in HashItems
  /\ hashList \in HashLists(MaxHashes)
  /\ hashResult = FALSE
  /\ destinationID = NoCharacter
  /\ platform = "reliable"
  /\ BucketIdle
  /\ LoadoutIdle
  /\ TransferIdle
  /\ EquipIdle
  /\ RequestIdle
  /\ PersistIdle

\* itemHashesFilter(item, hashList)
ItemHashesFilterCall ==
  /\ hpc = "call"
  /\ hashResult' = itemHashesFilter(hashItem, hashList)
  /\ hpc' = "returned"
  /\ UNCHANGED <<platform, poolVars, postVars, fixupVars, persistVars, requestVars, destinationID,
                 hashItem, hashList, bucketVars, loadoutVars, transferVars, equipVars>>

HashesNext == ItemHashesFilterCall

SpecHashes == HashesInit /\ [][HashesNext]_vars

\* C29: the value returned is TRUE exactly when the item's type hash is an
\* element of the list, whatever the list's length, and FALSE for the empty
\* list.
C29_MembershipInWholeList ==
  hpc = "returned" =>
    (hashResult <=> (hashItem # nil
                     /\ \E k \in 1..Len(hashList) : hashList[k] = hashItem.ItemHash))

(***************************************************************************)
(* SpecSwap: EquipMaxLightGear from the fetched profile on, over profiles  *)
(* in which every mover is equipped on another character and has a spare   *)
(* there whose power is lower than or equal to its own.                    *)
(***************************************************************************)
SparePowers == {1, 2}

SwapKinds ==
  { [loc |-> EquippedOn(c), sparePower |-> p] : c \in CharacterIDs \ {1}, p \in SparePowers }

SwapChoices(maxMovers) ==
  UNION { [D -> SwapKinds] :
            D \in { E \in SUBSET MoverBuckets : Cardinality(E) \in 1..maxMovers } }

SwapGear(missing, movers, b) ==
  (IF b = missing THEN <<>>
   ELSE << Gear(b, SuperiorTier, ClassOfBucket(b), IF b = Ghost THEN -1 ELSE 1, EquippedOn(1)) >>)
  \o (IF b \notin DOMAIN movers THEN <<>>
      ELSE << Gear(b, SuperiorTier, ClassOfBucket(b), 2, movers[b].loc),
              Gear(b, SuperiorTier, ClassOfBucket(b), movers[b].sparePower,
                   OnCharacter(movers[b].loc.CharacterID)) >>)

RECURSIVE SwapEntries(_, _, _)
SwapEntries(missing, movers, b) ==
  IF b > ClassArmor THEN <<>>
  ELSE SwapGear(missing, movers, b) \o SwapEntries(missing, movers, b + 1)

SwapProfiles(maxMovers) ==
  { BuildItems(SwapEntries(missing, movers, Kinetic)) :
      missing \in {0, Ghost}, movers \in SwapChoices(maxMovers) }

\* The state of EquipMaxLightGear after the profile has arrived.
SwapInit ==
  /\ PoolIdle
  /\ PostIdle
  /\ epc = "find"
  /\ request = IntentRequest("MaxPower", EmptySlot, "", "")
  /\ response = "none"
  /\ fetches = 1
  /\ platform = "reliable"
  /\ light = NotComputed
  /\ equipCalls = <<>>
  /\ \E a \in SwapProfiles(MaxMovers) :
       profile = [Characters |-> Characters, AllItems |-> a]
  /\ destinationID = profile.Characters[1].CharacterID
  /\ lpc = "input" /\ baseline = EmptyLoadout
  /\ exoticCandidates = EmptyLoadout /\ loadout = EmptyLoadout
  /\ BucketIdle
  /\ TransferIdle
  /\ PersistIdle
  /\ FixupIdle
  /\ HashesIdle

SwapNext ==
  \/ FindMaxLightLoadout
  \/ CalculateLightLevel
  \/ EquipLoadout
  \/ TransferItemDispatch
  \/ \E t \in 1..Len(tasks) : MoveToVault(t)
  \/ \E t \in 1..Len(tasks) : MoveFromVault(t)
  \/ TransferItemReturn
  \/ TransferItemPanic
  \/ EquipItems

SpecSwap == SwapInit /\ [][SwapNext]_vars

(***************************************************************************)
(* The swap loop of equipLoadout.                                          *)
(***************************************************************************)
\* The loadout items the swap loop frees.
FreedItems ==
  { loadout[b] : b \in { x \in LoadoutBuckets : needsSwap(loadout[x], destinationID) } }

\* C30: no equip request posted by the swap loop of equipLoadout names a
\* loadout item that the loop is freeing: the replacement equipped on the
\* other character is another item, in every order the sort may give to
\* items of equal power.
C30_ReplacementIsAnotherItem ==
  [][(epc = "equipLoadout" /\ epc' = "move") =>
       \A k \in (Len(equipCalls) + 1)..Len(equipCalls') :
         \A item \in FreedItems : equipCalls'[k].itemId # item.InstanceID]_vars

====
